---- MODULE Spec2Model ----
(***************************************************************************)
(* Delivery stage of getmail: getmailcore/destinations.py.                 *)
(*                                                                         *)
(*   SpecMbox     several processes, each with its own Mboxrd instance,    *)
(*                delivering to one shared mbox file                       *)
(*   SpecMaildir  several Maildir instances delivering to one maildir      *)
(*   SpecSorter   one MultiSorter and one MultiDestination delivering to   *)
(*                their sub-destinations                                   *)
(*   SpecExternal one MDA_qmaillocal or MDA_external, the child it forks   *)
(*                and the delivery program the child becomes               *)
(*   SpecConfig   the construction of a destination, checkconf and the     *)
(*                display string, of getmailcore/baseclasses.py            *)
(*   SpecProvenance  retriever_info and deliver_message on a tree of       *)
(*                destinations                                             *)
(*   SpecResolve  _get_destination on one destination string               *)
(*   SpecMboxInit Mboxrd.initialize on one path, and another process       *)
(*                locking the file                                         *)
(*   SpecArgv     the arguments MDA_qmaillocal and MDA_external give to    *)
(*                their program                                            *)
(***************************************************************************)
EXTENDS Integers, Sequences, FiniteSets, TLC

\* ------------------------------------------------------------------ bounds
\* calls the Mboxrd instances start in a run, all together
MaxDeliveries == 3
\* pieces in which one flattened message reaches the file
MsgChunks == 2
\* calls the Maildir instances start in a run, all together
MaxMaildirCalls == 4
\* routes of a MultiSorter
MaxRoutes == 2
\* children of a MultiDestination
MaxDests == 3
\* calls of the MDA destination in a run
MaxExtCalls == 2
\* calls of checkconf on one object
MaxChecks == 2
\* destinations under the outermost composite
MaxSubs == 2
\* characters of a destination string
MaxPathLen == 3
\* argument templates of an MDA_external
MaxTemplates == 2

\* the delivering processes, one destination instance each
Procs == {1, 2}
\* lock owner when the lock is free
NoProc == 0
\* a chunk of NULs, as a truncate beyond end-of-file may add
Hole == <<0, 0, 0>>

VARIABLES
    \* ---- Mboxrd
    mbox,        \* the shared mbox file: a sequence of chunks <<proc, call, k>>
    lockHolder,  \* the process holding the exclusive lock, or NoProc
    pc,          \* pc[p]: position of p in Mboxrd._deliver_message
    statusOld,   \* statusOld[p]: st_size of the snapshot of line 203
    written,     \* written[p]: chunks of the current message in the file
    result,      \* result[p]: how the last call ended
    ncalls,      \* ncalls[p]: calls started by p
    fclosed,     \* fclosed[p]: self.f.closed
    completed,   \* deliveries <<p, n>> that returned successfully
    atLock,      \* atLock[p]: the file when p's current call got the lock
    atReturn,    \* atReturn[p]: the file when p's last call ended
    ioFailed,    \* ioFailed[p]: the call met an I/O failure in write/flush/fsync
    utimeFailed, \* utimeFailed[p]: os.utime raised OSError in the call
    truncFailed, \* some self.f.truncate of line 232 has raised
    \* ---- Maildir
    clock,       \* the seconds of time.time()
    tmpdir,      \* files under tmp/: name -> chunks written
    newdir,      \* files under new/: name -> chunks written
    mdpc,        \* mdpc[i]: position of instance i in Maildir._deliver_message
    mdname,      \* mdname[i]: the file name of i's current delivery
    dcount,      \* dcount[i]: self.dcount
    mdcalls,     \* mdcalls[i]: calls started by i
    mdresult,    \* mdresult[i]: how the last call ended
    used,        \* used[i]: the dcount values of i's successful deliveries
    mdfails,     \* mdfails[i]: failed deliveries of i
    leftover,    \* names of tmp/ files that failed deliveries left behind
    \* ---- MultiSorter / MultiDestination
    kind,        \* the composite: "MultiSorter" or "MultiDestination"
    targets,     \* self.targets: the patterns; route k delivers to child k
    ndests,      \* Len(self._destinations) of the MultiDestination
    cpc,         \* position in the composite's _deliver_message
    recipient,   \* msg.recipient: None or an address
    idx,         \* the route or child the loop is at
    matched,     \* the local list "matched" of MultiSorter._deliver_message
    log,         \* children that accepted the message, in order
    attempts,    \* children whose deliver_message was called, in order
    cresult,     \* how the composite's last call ended
    childFailed, \* the child whose deliver_message raised, or NoChild
    childErr,    \* what that child raised
    \* ---- MDA_qmaillocal / MDA_external
    variant,     \* the class of the destination
    euid,        \* os.geteuid() of the parent: "root" or "user"
    allowRoot,   \* self.conf['allow_root_commands']
    confUser,    \* self.conf['user']
    xrcpt,       \* msg.recipient is not None
    ppc,         \* position of the parent in _deliver_message
    pstep,       \* the step of ParentOrder the parent is at
    child,       \* the child: "none", "setup", "running", "exited", "escaped"
    ctrace,      \* the steps the child has completed, in order
    cfail,       \* the step of the child that raised, or "none"
    cexit,       \* the exit status of the child
    exitcode,    \* the local exitcode of the parent
    rawOut,      \* what the child's stdout file holds
    rawErr,      \* what the child's stderr file holds
    xresult,     \* how the call ended
    forks,       \* os.fork() calls of the current call
    prev,        \* exit status and end of the call before
    xcalls,      \* calls started
    \* ---- ConfigurableBase / DeliverySkeleton
    cls,         \* the class being constructed
    args,        \* **args of the constructor call
    conf,        \* self.conf
    confchecked, \* self.__confchecked
    obj,         \* "new", "constructed", or "failed" when __init__ raised
    cerr,        \* how the last operation on the object ended
    nchecks,     \* calls of checkconf on the object
    shown,       \* the last display string, and the self.conf it was made from
    \* ---- retriever_info / deliver_message
    parent,      \* the composite each destination is a child of
    stored,      \* self.received_from, received_with, received_by of each destination
    lastctx,     \* the context last applied to each destination, itself or through a composite
    handed,      \* the primitives the last delivery ran, what the message carried then, and the context last applied then
    \* ---- _get_destination
    sections,    \* self.conf['configparser'].sections()
    sectype,     \* the type option of the sections
    spath,       \* the destination string _get_destination is called on
    resolved,    \* how the call ended
    \* ---- Mboxrd.initialize
    ipath,       \* what self.conf['path'] names: its kind and, for a file, its content
    iwas,        \* the kind of the path when initialize was called
    ilock,       \* who holds the lock on the file: "none", "self" or "other"
    ipc,         \* where initialize is
    ifirst,      \* first_line
    iresult,     \* how initialize ended
    \* ---- the arguments of the delivery program
    ain,         \* the destination class, its configuration, and the sender and recipient of the message
    ainfo,       \* msginfo
    aargv,       \* the argument vector os.execl gives to the program
    aend         \* how building the arguments ended

mboxVars == <<mbox, lockHolder, pc, statusOld, written, result, ncalls, fclosed,
              completed, atLock, atReturn, ioFailed, utimeFailed, truncFailed>>

maildirVars == <<clock, tmpdir, newdir, mdpc, mdname, dcount, mdcalls, mdresult,
                 used, mdfails, leftover>>

sorterVars == <<kind, targets, ndests, cpc, recipient, idx, matched, log, attempts,
                cresult, childFailed, childErr>>

extVars == <<variant, euid, allowRoot, confUser, xrcpt, ppc, pstep, child, ctrace,
             cfail, cexit, exitcode, rawOut, rawErr, xresult, forks, prev, xcalls>>

cfgVars == <<cls, args, conf, confchecked, obj, cerr, nchecks, shown>>

provVars == <<parent, stored, lastctx, handed>>

resVars == <<sections, sectype, spath, resolved>>

initVars == <<ipath, iwas, ilock, ipc, ifirst, iresult>>

argvVars == <<ain, ainfo, aargv, aend>>

\* the groups of the actions above, and the groups after them
baseVars == <<mboxVars, maildirVars, sorterVars, extVars, cfgVars>>
laterVars == <<provVars, resVars, initVars, argvVars>>

\* what the actions of a later group leave alone
exceptProv == <<baseVars, resVars, initVars, argvVars>>
exceptRes == <<baseVars, provVars, initVars, argvVars>>
exceptInit == <<baseVars, provVars, resVars, argvVars>>
exceptArgv == <<baseVars, provVars, resVars, initVars>>

vars == <<baseVars, laterVars>>

\* ------------------------------------------------------------------ Mboxrd

\* the sum of f[i] over the processes
SumOver(f) == LET Sum[S \in SUBSET Procs] ==
                  IF S = {} THEN 0
                  ELSE LET i == CHOOSE x \in S : TRUE
                       IN f[i] + Sum[S \ {i}]
              IN Sum[Procs]

\* the chunks of the message of p's n-th call, in order
Message(p, n) == [k \in 1..MsgChunks |-> <<p, n, k>>]

\* file.truncate(size): what the file may be afterwards. A size within the
\* file cuts it there; a size past the end is platform-dependent: the file
\* stays as it is or grows to that size, NUL-filled
Truncate(f, size) ==
    IF size <= Len(f) THEN {SubSeq(f, 1, size)}
    ELSE {f, f \o [i \in 1..(size - Len(f)) |-> Hole]}

\* lock_file(f): blocks until no other process holds the lock
CanLock(p) == lockHolder \in {NoProc, p}

\* unlock_file(f): releases the lock if this process holds it
Unlocked(p) == IF lockHolder = p THEN NoProc ELSE lockHolder

\* line 203: status_old = os.fstat(...), taken before lock_file
Fstat(p) ==
    /\ pc[p] = "idle"
    /\ ~fclosed[p]
    /\ SumOver(ncalls) < MaxDeliveries
    /\ ncalls' = [ncalls EXCEPT ![p] = @ + 1]
    /\ statusOld' = [statusOld EXCEPT ![p] = Len(mbox)]
    /\ written' = [written EXCEPT ![p] = 0]
    /\ result' = [result EXCEPT ![p] = "none"]
    /\ ioFailed' = [ioFailed EXCEPT ![p] = FALSE]
    /\ utimeFailed' = [utimeFailed EXCEPT ![p] = FALSE]
    /\ pc' = [pc EXCEPT ![p] = "lock"]
    /\ UNCHANGED <<mbox, lockHolder, fclosed, completed, atLock, atReturn>>
    /\ UNCHANGED <<truncFailed, maildirVars, sorterVars, extVars, cfgVars, laterVars>>

\* lines 204-206: lock_file(self.f); self.f.seek(0, 2)
LockFile(p) ==
    /\ pc[p] = "lock"
    /\ CanLock(p)
    /\ lockHolder' = p
    /\ atLock' = [atLock EXCEPT ![p] = mbox]
    /\ pc' = [pc EXCEPT ![p] = "write"]
    /\ UNCHANGED <<mbox, statusOld, written, result, ncalls, fclosed, completed,
                   atReturn, ioFailed, utimeFailed>>
    /\ UNCHANGED <<truncFailed, maildirVars, sorterVars, extVars, cfgVars, laterVars>>

\* lines 209-210: one more piece of the message reaches the end of the file
WriteChunk(p) ==
    /\ pc[p] = "write"
    /\ written[p] < MsgChunks
    /\ mbox' = Append(mbox, <<p, ncalls[p], written[p] + 1>>)
    /\ written' = [written EXCEPT ![p] = @ + 1]
    /\ UNCHANGED <<lockHolder, pc, statusOld, result, ncalls, fclosed, completed,
                   atLock, atReturn, ioFailed, utimeFailed>>
    /\ UNCHANGED <<truncFailed, maildirVars, sorterVars, extVars, cfgVars, laterVars>>

\* lines 209-210, 225: write or flush raises IOError
WriteIOError(p) ==
    /\ pc[p] = "write"
    /\ ioFailed' = [ioFailed EXCEPT ![p] = TRUE]
    /\ pc' = [pc EXCEPT ![p] = "except"]
    /\ UNCHANGED <<mbox, lockHolder, statusOld, written, result, ncalls, fclosed,
                   completed, atLock, atReturn, utimeFailed>>
    /\ UNCHANGED <<truncFailed, maildirVars, sorterVars, extVars, cfgVars, laterVars>>

\* lines 211-212: os.fsync succeeds; status_new = os.fstat(...)
Fsync(p) ==
    /\ pc[p] = "write"
    /\ written[p] = MsgChunks
    /\ pc' = [pc EXCEPT ![p] = "utime"]
    /\ UNCHANGED <<mbox, lockHolder, statusOld, written, result, ncalls, fclosed,
                   completed, atLock, atReturn, ioFailed, utimeFailed>>
    /\ UNCHANGED <<truncFailed, maildirVars, sorterVars, extVars, cfgVars, laterVars>>

\* line 211: os.fsync raises OSError, which "except IOError" (line 225) does
\* not catch: it leaves _deliver_message as it is
FsyncOSError(p) ==
    /\ pc[p] = "write"
    /\ written[p] = MsgChunks
    /\ ioFailed' = [ioFailed EXCEPT ![p] = TRUE]
    /\ result' = [result EXCEPT ![p] = "OSError"]
    /\ atReturn' = [atReturn EXCEPT ![p] = mbox]
    /\ pc' = [pc EXCEPT ![p] = "idle"]
    /\ UNCHANGED <<mbox, lockHolder, statusOld, written, ncalls, fclosed, completed,
                   atLock, utimeFailed>>
    /\ UNCHANGED <<truncFailed, maildirVars, sorterVars, extVars, cfgVars, laterVars>>

\* how a failure of os.utime would end the call if it were not caught
UtimePropagates(failed) ==
    IF failed THEN [pc |-> "idle", result |-> "OSError"]
    ELSE [pc |-> "unlock", result |-> "none"]

\* lines 215-221: os.utime in its own try; OSError is logged and dropped
AfterUtime(failed) == [pc |-> "unlock", result |-> "none"]

\* lines 215-221: os.utime succeeds or raises OSError
Utime(p) ==
    /\ pc[p] = "utime"
    /\ \E failed \in BOOLEAN :
         /\ utimeFailed' = [utimeFailed EXCEPT ![p] = failed]
         /\ pc' = [pc EXCEPT ![p] = AfterUtime(failed).pc]
         /\ result' = [result EXCEPT ![p] = AfterUtime(failed).result]
         /\ atReturn' = IF AfterUtime(failed).pc = "idle"
                        THEN [atReturn EXCEPT ![p] = mbox] ELSE atReturn
    /\ UNCHANGED <<mbox, lockHolder, statusOld, written, ncalls, fclosed, completed,
                   atLock, ioFailed>>
    /\ UNCHANGED <<truncFailed, maildirVars, sorterVars, extVars, cfgVars, laterVars>>

\* lines 223, 237: unlock_file(self.f); return self
UnlockReturn(p) ==
    /\ pc[p] = "unlock"
    /\ lockHolder' = Unlocked(p)
    /\ result' = [result EXCEPT ![p] = "ok"]
    /\ completed' = completed \cup {<<p, ncalls[p]>>}
    /\ atReturn' = [atReturn EXCEPT ![p] = mbox]
    /\ pc' = [pc EXCEPT ![p] = "idle"]
    /\ UNCHANGED <<mbox, statusOld, written, ncalls, fclosed, atLock, ioFailed,
                   utimeFailed>>
    /\ UNCHANGED <<truncFailed, maildirVars, sorterVars, extVars, cfgVars, laterVars>>

\* lines 225-235: the IOError handler: truncate to the snapshot's size if the
\* file is open (a failing truncate is dropped), then raise
\* getmailDeliveryError; unlock_file is not called
ExceptRaise(p) ==
    /\ pc[p] = "except"
    /\ IF fclosed[p]
       THEN UNCHANGED <<mbox, truncFailed>>
       ELSE \E truncated \in BOOLEAN :
              /\ mbox' \in IF truncated THEN Truncate(mbox, statusOld[p]) ELSE {mbox}
              /\ truncFailed' = (truncFailed \/ ~truncated)
    /\ result' = [result EXCEPT ![p] = "getmailDeliveryError"]
    /\ atReturn' = [atReturn EXCEPT ![p] = mbox']
    /\ pc' = [pc EXCEPT ![p] = "idle"]
    /\ UNCHANGED <<lockHolder, statusOld, written, ncalls, fclosed, completed,
                   atLock, ioFailed, utimeFailed>>
    /\ UNCHANGED <<maildirVars, sorterVars, extVars, cfgVars, laterVars>>

\* lines 187-192: __del__: unlock_file(self.f); self.f.close()
Del(p) ==
    /\ pc[p] = "idle"
    /\ ~fclosed[p]
    /\ lockHolder' = Unlocked(p)
    /\ fclosed' = [fclosed EXCEPT ![p] = TRUE]
    /\ UNCHANGED <<mbox, pc, statusOld, written, result, ncalls, completed, atLock,
                   atReturn, ioFailed, utimeFailed>>
    /\ UNCHANGED <<truncFailed, maildirVars, sorterVars, extVars, cfgVars, laterVars>>

MboxNext ==
    \E p \in Procs :
        \/ Fstat(p)
        \/ LockFile(p)
        \/ WriteChunk(p)
        \/ WriteIOError(p)
        \/ Fsync(p)
        \/ FsyncOSError(p)
        \/ Utime(p)
        \/ UnlockReturn(p)
        \/ ExceptRaise(p)
        \/ Del(p)

\* ----------------------------------------------------------------- Maildir

\* the Maildir instances, each in a process of its own (pid = instance)
Insts == Procs
\* the seconds the clock shows during a run
Times == {0, 1}
\* self.dcount = 0 (line 118)
InitialDcount == 0
\* self.hostname (line 117)
Hostname == "host"

\* the file name deliver_maildir builds from the time, the process id, the
\* host name and the delivery counter it is handed (line 134)
FileName(t, pid, count) == <<t, pid, Hostname, count>>

\* directory d with file name holding n chunks (an existing file is replaced)
WithFile(d, name, n) == (name :> n) @@ d

\* directory d without file name
WithoutFile(d, name) == [x \in (DOMAIN d) \ {name} |-> d[x]]

\* the counter never moves
DcountStuck(d, ok) == d

\* the counter moves on every call, failed ones too
DcountAlways(d, ok) == d + 1

\* lines 134-136: self.dcount += 1 is reached only when deliver_maildir
\* returned; an exception of deliver_maildir leaves the method before it
DcountAfter(d, ok) == IF ok THEN d + 1 ELSE d

\* the calls all instances have started
TotalCalls == SumOver(mdcalls)

\* time passes
Tick ==
    /\ clock + 1 \in Times
    /\ clock' = clock + 1
    /\ UNCHANGED <<tmpdir, newdir, mdpc, mdname, dcount, mdcalls, mdresult, used,
                   mdfails, leftover>>
    /\ UNCHANGED <<mboxVars, sorterVars, extVars, cfgVars, laterVars>>

\* line 134, deliver_maildir: the file is created under tmp/
CreateTmp(i) ==
    /\ mdpc[i] = "idle"
    /\ TotalCalls < MaxMaildirCalls
    /\ mdcalls' = [mdcalls EXCEPT ![i] = @ + 1]
    /\ mdname' = [mdname EXCEPT ![i] = FileName(clock, i, dcount[i])]
    /\ tmpdir' = WithFile(tmpdir, mdname'[i], 0)
    /\ mdresult' = [mdresult EXCEPT ![i] = "none"]
    /\ mdpc' = [mdpc EXCEPT ![i] = "tmp"]
    /\ UNCHANGED <<clock, newdir, dcount, used, mdfails, leftover>>
    /\ UNCHANGED <<mboxVars, sorterVars, extVars, cfgVars, laterVars>>

\* deliver_maildir: one more piece of the message reaches the tmp/ file
WriteTmp(i) ==
    /\ mdpc[i] = "tmp"
    /\ tmpdir[mdname[i]] < MsgChunks
    /\ tmpdir' = [tmpdir EXCEPT ![mdname[i]] = @ + 1]
    /\ UNCHANGED <<clock, newdir, mdpc, mdname, dcount, mdcalls, mdresult, used,
                   mdfails, leftover>>
    /\ UNCHANGED <<mboxVars, sorterVars, extVars, cfgVars, laterVars>>

\* deliver_maildir: the complete file is renamed from tmp/ into new/
RenameToNew(i) ==
    /\ mdpc[i] = "tmp"
    /\ tmpdir[mdname[i]] = MsgChunks
    /\ newdir' = WithFile(newdir, mdname[i], tmpdir[mdname[i]])
    /\ tmpdir' = WithoutFile(tmpdir, mdname[i])
    /\ mdpc' = [mdpc EXCEPT ![i] = "delivered"]
    /\ UNCHANGED <<clock, mdname, dcount, mdcalls, mdresult, used, mdfails, leftover>>
    /\ UNCHANGED <<mboxVars, sorterVars, extVars, cfgVars, laterVars>>

\* deliver_maildir fails before the rename; the tmp/ file is removed or stays
FailTmp(i) ==
    /\ mdpc[i] = "tmp"
    /\ \E removed \in BOOLEAN :
         /\ tmpdir' = IF removed THEN WithoutFile(tmpdir, mdname[i]) ELSE tmpdir
         /\ leftover' = IF removed THEN leftover ELSE leftover \cup {mdname[i]}
    /\ mdpc' = [mdpc EXCEPT ![i] = "failed"]
    /\ UNCHANGED <<clock, newdir, mdname, dcount, mdcalls, mdresult, used, mdfails>>
    /\ UNCHANGED <<mboxVars, sorterVars, extVars, cfgVars, laterVars>>

\* lines 134-137: deliver_maildir has returned (self.dcount += 1; return
\* self) or raised (the exception leaves _deliver_message)
MaildirDeliverEnd(i) ==
    /\ mdpc[i] \in {"delivered", "failed"}
    /\ LET ok == mdpc[i] = "delivered" IN
         /\ dcount' = [dcount EXCEPT ![i] = DcountAfter(@, ok)]
         /\ used' = IF ok THEN [used EXCEPT ![i] = Append(@, dcount[i])] ELSE used
         /\ mdfails' = IF ok THEN mdfails ELSE [mdfails EXCEPT ![i] = @ + 1]
         /\ mdresult' = [mdresult EXCEPT ![i] =
                            IF ok THEN "ok" ELSE "getmailDeliveryError"]
    /\ mdpc' = [mdpc EXCEPT ![i] = "idle"]
    /\ UNCHANGED <<clock, tmpdir, newdir, mdname, mdcalls, leftover>>
    /\ UNCHANGED <<mboxVars, sorterVars, extVars, cfgVars, laterVars>>

MaildirNext ==
    \/ Tick
    \/ \E i \in Insts :
        \/ CreateTmp(i)
        \/ WriteTmp(i)
        \/ RenameToNew(i)
        \/ FailTmp(i)
        \/ MaildirDeliverEnd(i)

\* ------------------------------------------- MultiSorter, MultiDestination

\* msg.recipient == None
None == [known |-> FALSE, addr |-> <<>>]
\* msg.recipient is the address a
Known(a) == [known |-> TRUE, addr |-> a]
\* the child number of self.default; route k delivers to child k
DefaultChild == 0
\* no child has raised
NoChild == -1

\* the patterns a route may carry (literal text, no regex metacharacters)
Patterns == {<<"a">>, <<"b">>, <<"A", "b">>}
\* the envelope recipient addresses of the messages
Addresses == {<<"a">>, <<"B">>, <<"a", "b">>, <<"b", "a">>, <<"c">>}
\* the values of msg.recipient
Recipients == {Known(a) : a \in Addresses} \cup {None}
\* what a sub-destination's deliver_message may raise
ChildErrors == {"getmailDeliveryError", "OSError"}

SeqsUpTo(S, n) == UNION {[1..k -> S] : k \in 0..n}

\* re.IGNORECASE (line 720): letters compare by their lower-case form
Lower(c) == CASE c = "A" -> "a" [] c = "B" -> "b" [] OTHER -> c

\* line 747: pattern.search(msg.recipient), unanchored and case-insensitive
Search(pat, r) ==
    \E s \in 0..(Len(r) - Len(pat)) :
        \A j \in 1..Len(pat) : Lower(r[s + j]) = Lower(pat[j])

\* line 743-744: the raise statement builds its message with "% o", and no
\* name o is bound in the method: the operand raises NameError before any
\* getmailConfigurationError exists
NoRecipientRaises == "NameError"

\* the loop stops at the first matching route
NextRouteBreak(i, hit) == IF hit THEN Len(targets) + 1 ELSE i + 1

\* line 745: the for loop goes on to the next route, matched or not
NextRoute(i, hit) == i + 1

\* lines 745-756: no try around dest.deliver_message: what the child raises
\* leaves MultiSorter._deliver_message
SorterChildRaised(err) == [cpc |-> "done", cresult |-> err]

\* the child's error is dropped and the loop goes on
ChildErrorSwallowed(err) == [cpc |-> "loop", cresult |-> "none"]

\* lines 649-650: no try around dest.deliver_message: what the child raises
\* leaves MultiDestination._deliver_message
DestChildRaised(err) == [cpc |-> "done", cresult |-> err]

\* lines 740-744: MultiSorter._deliver_message is entered
SorterStart(r) ==
    /\ kind = "MultiSorter"
    /\ cpc \in {"idle", "done"}
    /\ recipient' = r
    /\ idx' = 1
    /\ matched' = <<>>
    /\ log' = <<>>
    /\ attempts' = <<>>
    /\ childFailed' = NoChild
    /\ childErr' = "none"
    /\ IF r = None /\ targets # <<>>
       THEN cpc' = "done" /\ cresult' = NoRecipientRaises
       ELSE cpc' = "loop" /\ cresult' = "none"
    /\ UNCHANGED <<kind, targets, ndests>>
    /\ UNCHANGED <<mboxVars, maildirVars, extVars, cfgVars, laterVars>>

\* lines 745-750: one turn of the loop over self.targets
SorterRoute ==
    /\ kind = "MultiSorter"
    /\ cpc = "loop"
    /\ idx <= Len(targets)
    /\ IF ~Search(targets[idx], recipient.addr)
       THEN /\ idx' = NextRoute(idx, FALSE)
            /\ UNCHANGED <<cpc, matched, log, attempts, cresult, childFailed,
                           childErr>>
       ELSE /\ attempts' = Append(attempts, idx)
            /\ \E out \in {"ok"} \cup ChildErrors :
                 IF out = "ok"
                 THEN /\ log' = Append(log, idx)
                      /\ matched' = Append(matched, idx)
                      /\ idx' = NextRoute(idx, TRUE)
                      /\ UNCHANGED <<cpc, cresult, childFailed, childErr>>
                 ELSE /\ childFailed' = idx
                      /\ childErr' = out
                      /\ cpc' = SorterChildRaised(out).cpc
                      /\ cresult' = SorterChildRaised(out).cresult
                      /\ idx' = IF cpc' = "loop" THEN idx + 1 ELSE idx
                      /\ UNCHANGED <<matched, log>>
    /\ UNCHANGED <<kind, targets, ndests, recipient>>
    /\ UNCHANGED <<mboxVars, maildirVars, extVars, cfgVars, laterVars>>

\* lines 751-757: after the loop: the default if nothing matched
SorterDefault ==
    /\ kind = "MultiSorter"
    /\ cpc = "loop"
    /\ idx > Len(targets)
    /\ IF matched # <<>>
       THEN /\ cresult' = "ok"
            /\ UNCHANGED <<log, attempts, childFailed, childErr>>
       ELSE /\ attempts' = Append(attempts, DefaultChild)
            /\ \E out \in {"ok"} \cup ChildErrors :
                 IF out = "ok"
                 THEN /\ log' = Append(log, DefaultChild)
                      /\ cresult' = "ok"
                      /\ UNCHANGED <<childFailed, childErr>>
                 ELSE /\ childFailed' = DefaultChild
                      /\ childErr' = out
                      /\ cresult' = SorterChildRaised(out).cresult
                      /\ UNCHANGED log
    /\ cpc' = "done"
    /\ UNCHANGED <<kind, targets, ndests, recipient, idx, matched>>
    /\ UNCHANGED <<mboxVars, maildirVars, extVars, cfgVars, laterVars>>

\* lines 647-648: MultiDestination._deliver_message is entered
DestStart(r) ==
    /\ kind = "MultiDestination"
    /\ cpc \in {"idle", "done"}
    /\ recipient' = r
    /\ idx' = 1
    /\ log' = <<>>
    /\ attempts' = <<>>
    /\ childFailed' = NoChild
    /\ childErr' = "none"
    /\ cpc' = "loop"
    /\ cresult' = "none"
    /\ UNCHANGED <<kind, targets, ndests, matched>>
    /\ UNCHANGED <<mboxVars, maildirVars, extVars, cfgVars, laterVars>>

\* lines 649-650: one turn of the loop over self._destinations
DestChild ==
    /\ kind = "MultiDestination"
    /\ cpc = "loop"
    /\ idx <= ndests
    /\ attempts' = Append(attempts, idx)
    /\ \E out \in {"ok"} \cup ChildErrors :
         IF out = "ok"
         THEN /\ log' = Append(log, idx)
              /\ idx' = idx + 1
              /\ UNCHANGED <<cpc, cresult, childFailed, childErr>>
         ELSE /\ childFailed' = idx
              /\ childErr' = out
              /\ cpc' = DestChildRaised(out).cpc
              /\ cresult' = DestChildRaised(out).cresult
              /\ idx' = IF cpc' = "loop" THEN idx + 1 ELSE idx
              /\ UNCHANGED log
    /\ UNCHANGED <<kind, targets, ndests, recipient, matched>>
    /\ UNCHANGED <<mboxVars, maildirVars, extVars, cfgVars, laterVars>>

\* line 651: return self
DestReturn ==
    /\ kind = "MultiDestination"
    /\ cpc = "loop"
    /\ idx > ndests
    /\ cpc' = "done"
    /\ cresult' = "ok"
    /\ UNCHANGED <<kind, targets, ndests, recipient, idx, matched, log, attempts,
                   childFailed, childErr>>
    /\ UNCHANGED <<mboxVars, maildirVars, extVars, cfgVars, laterVars>>

SorterNext ==
    \/ \E r \in Recipients : SorterStart(r)
    \/ SorterRoute
    \/ SorterDefault
    \/ \E r \in Recipients : DestStart(r)
    \/ DestChild
    \/ DestReturn

\* ------------------------------------------- MDA_qmaillocal, MDA_external

\* a Python value: its type and its text
Val(t, v) == [t |-> t, v |-> v]
\* a key that self.conf does not hold
Absent == Val("absent", "")
\* the value None
PyNone == Val("NoneType", "None")
\* the truth value of a Python value, as "not" and "if" take it
Truthy(x) ==
    CASE x.t = "bool" -> x.v = "True"
      [] x.t = "str" -> x.v # ""
      [] x.t = "tuple" -> x.v # "()"
      [] x.t = "int" -> x.v # "0"
      [] OTHER -> FALSE

\* self.conf['allow_root_commands']: not supplied, a boolean, or the text of
\* a configuration file
AllowRootValues == {Absent, Val("bool", "False"), Val("bool", "True"),
                    Val("str", "false")}
\* self.conf['user']: not supplied, None, or a user name
UserValues == {Absent, PyNone, Val("str", "mail")}

\* what the child's stdout and stderr files hold
Whitespace == {" ", "\n"}
Texts == {<<>>, <<"\n">>, <<"m">>, <<" ", "m", "\n">>}

\* str.strip()
RECURSIVE LStrip(_)
LStrip(s) == IF s # <<>> /\ Head(s) \in Whitespace THEN LStrip(Tail(s)) ELSE s
RECURSIVE RStrip(_)
RStrip(s) == IF s # <<>> /\ s[Len(s)] \in Whitespace
             THEN RStrip(SubSeq(s, 1, Len(s) - 1)) ELSE s
Strip(s) == RStrip(LStrip(s))

\* the exit status of the child whose set-up failed
ChildFailedExit == 127
\* the exit status qmail-local gives to a temporary failure
TemporaryExit == 111
\* the exit statuses of the delivery program
ExitCodes == {0, 1, TemporaryExit}
\* exitcode before the wait has returned
NoExit == -1

\* the steps of the child, in order
ChildStepsNoDrop(v) ==
    IF v = "MDA_qmaillocal"
    THEN <<"args", "tmpfile", "write", "seek", "stdin", "stdout", "stderr",
           "execl">>
    ELSE <<"tmpfile", "write", "seek", "stdin", "stdout", "stderr",
           "args", "execl">>
ChildSteps(v) ==
    IF v = "MDA_qmaillocal"
    THEN <<"args", "tmpfile", "write", "seek", "stdin", "stdout", "stderr",
           "change_uidgid", "execl">>
    ELSE <<"tmpfile", "write", "seek", "stdin", "stdout", "stderr",
           "change_uidgid", "args", "execl">>

\* what a step of the child may raise
StepErrors(step) ==
    CASE step = "args" -> {"TypeError"}
      [] step \in {"write", "seek"} -> {"IOError"}
      [] step = "execl" -> {"OSError", "TypeError"}
      [] OTHER -> {"OSError"}

\* the step that reads self.conf['user'] raises KeyError when it is missing
ReadsUser(v, step) ==
    \/ step = "change_uidgid"
    \/ v = "MDA_qmaillocal" /\ step = "args"

\* except StandardError
CatchesOSErrorOnly(e) == e = "OSError"
Catches(e) == e \in {"OSError", "IOError", "KeyError", "TypeError"}

\* line 349 names "o", which is not bound there
QmailNoRecipientRaises == "NameError"

\* the gate in front of the fork
GateOpen(v, uid, allow, user) == "pass"
Gate(v, uid, allow, user) ==
    IF uid # "root" THEN "pass"
    ELSE IF allow = Absent THEN "KeyError"
    ELSE IF Truthy(allow) THEN "pass"
    ELSE IF v = "MDA_qmaillocal" THEN "getmailConfigurationError"
    ELSE IF user = Absent THEN "KeyError"
    ELSE IF user = PyNone THEN "getmailConfigurationError"
    ELSE "pass"

\* the parent after the fork
ParentOrderNoWait == <<"result">>
ParentOrder == <<"wait", "result">>

\* how a call ends
EndOf(k, m, o) == [kind |-> k, msg |-> m, out |-> o]
NoResult == EndOf("none", "", <<>>)

\* line 395: the exit status of a temporary failure
TemporaryNever(v, code) == FALSE
Temporary(v, code) == v = "MDA_qmaillocal" /\ code = TemporaryExit

\* lines 397, 535: the exit status or the stripped stderr tell a failure
FailedOnExitOnly(code, err) == code # 0
Failed(code, err) == code # 0 \/ err # <<>>

\* the parent's verdict on the exit status and on the stripped output
Outcome(v, code, out, err) ==
    IF Temporary(v, code)
    THEN EndOf("getmailDeliveryError", "temporary error", <<>>)
    ELSE IF Failed(code, err)
    THEN EndOf("getmailDeliveryError", "error", <<>>)
    ELSE EndOf("ok", "", out)

\* the call starts: msginfo, the gate, the temporary files, the fork
ExtStart(known, forkOk) ==
    /\ ppc \in {"idle", "done"}
    /\ xcalls < MaxExtCalls
    /\ xcalls' = xcalls + 1
    /\ xrcpt' = known
    /\ prev' = [exit |-> exitcode, res |-> xresult]
    /\ ctrace' = <<>>
    /\ cfail' = "none"
    /\ cexit' = NoExit
    /\ exitcode' = NoExit
    /\ rawOut' = <<>>
    /\ rawErr' = <<>>
    /\ pstep' = 1
    /\ LET g == Gate(variant, euid, allowRoot, confUser)
           raised == IF variant = "MDA_qmaillocal" /\ ~known
                     THEN QmailNoRecipientRaises
                     ELSE IF g # "pass" THEN g
                     ELSE IF ~forkOk THEN "OSError"
                     ELSE "none"
       IN  IF raised # "none"
           THEN /\ xresult' = EndOf(raised, "", <<>>)
                /\ ppc' = "done"
                /\ forks' = 0
                /\ child' = "none"
           ELSE /\ xresult' = NoResult
                /\ ppc' = "parent"
                /\ forks' = 1
                /\ child' = "setup"
    /\ UNCHANGED <<variant, euid, allowRoot, confUser>>
    /\ UNCHANGED <<mboxVars, maildirVars, sorterVars, cfgVars, laterVars>>

\* the child takes its next step
ChildStep ==
    /\ child = "setup"
    /\ LET step == ChildSteps(variant)[Len(ctrace) + 1]
       IN  /\ ~(ReadsUser(variant, step) /\ confUser = Absent)
           /\ ctrace' = Append(ctrace, step)
           /\ child' = IF step = "execl" THEN "running" ELSE "setup"
    /\ UNCHANGED <<variant, euid, allowRoot, confUser, xrcpt, ppc, pstep, cfail,
                   cexit, exitcode, rawOut, rawErr, xresult, forks, prev, xcalls>>
    /\ UNCHANGED <<mboxVars, maildirVars, sorterVars, cfgVars, laterVars>>

\* a step of the child raises
ChildFails ==
    /\ child = "setup"
    /\ LET step == ChildSteps(variant)[Len(ctrace) + 1]
       IN  \E e \in IF ReadsUser(variant, step) /\ confUser = Absent
                    THEN {"KeyError"} ELSE StepErrors(step) :
             /\ cfail' = step
             /\ IF Catches(e)
                THEN child' = "exited" /\ cexit' = ChildFailedExit
                ELSE child' = "escaped" /\ cexit' = cexit
    /\ UNCHANGED <<variant, euid, allowRoot, confUser, xrcpt, ppc, pstep, ctrace,
                   exitcode, rawOut, rawErr, xresult, forks, prev, xcalls>>
    /\ UNCHANGED <<mboxVars, maildirVars, sorterVars, cfgVars, laterVars>>

\* the delivery program ends
ProgramExits ==
    /\ child = "running"
    /\ \E code \in ExitCodes, o \in Texts, e \in Texts :
         /\ cexit' = code
         /\ rawOut' = o
         /\ rawErr' = e
    /\ child' = "exited"
    /\ UNCHANGED <<variant, euid, allowRoot, confUser, xrcpt, ppc, pstep, ctrace,
                   cfail, exitcode, xresult, forks, prev, xcalls>>
    /\ UNCHANGED <<mboxVars, maildirVars, sorterVars, cfgVars, laterVars>>

\* self._wait_for_child returns
ParentWait ==
    /\ ppc = "parent"
    /\ ParentOrder[pstep] = "wait"
    /\ child = "exited"
    /\ exitcode' = cexit
    /\ pstep' = pstep + 1
    /\ UNCHANGED <<variant, euid, allowRoot, confUser, xrcpt, ppc, child, ctrace,
                   cfail, cexit, rawOut, rawErr, xresult, forks, prev, xcalls>>
    /\ UNCHANGED <<mboxVars, maildirVars, sorterVars, cfgVars, laterVars>>

\* the parent reads the two files and ends the call
ParentResult ==
    /\ ppc = "parent"
    /\ ParentOrder[pstep] = "result"
    /\ xresult' = Outcome(variant, exitcode, Strip(rawOut), Strip(rawErr))
    /\ ppc' = "done"
    /\ UNCHANGED <<variant, euid, allowRoot, confUser, xrcpt, pstep, child, ctrace,
                   cfail, cexit, exitcode, rawOut, rawErr, forks, prev, xcalls>>
    /\ UNCHANGED <<mboxVars, maildirVars, sorterVars, cfgVars, laterVars>>

ExternalNext ==
    \/ \E known \in BOOLEAN, forkOk \in BOOLEAN : ExtStart(known, forkOk)
    \/ ChildStep
    \/ ChildFails
    \/ ProgramExits
    \/ ParentWait
    \/ ParentResult

\* ------------------------------------- ConfigurableBase, DeliverySkeleton

\* an entry of _confitems; a required parameter has no default
Item(n, t) == [name |-> n, type |-> t, hasDefault |-> FALSE, default |-> Absent]
ItemD(n, t, d) == [name |-> n, type |-> t, hasDefault |-> TRUE, default |-> d]

\* the classes constructed here
Classes == {"MDA_qmaillocal", "MDA_external", "MultiSorter"}

\* _confitems of the class
ConfItems(c) ==
    CASE c = "MDA_qmaillocal" ->
           <<ItemD("qmaillocal", "str", Val("str", "/var/qmail/bin/qmail-local")),
             ItemD("user", "str", Val("str", "login")),
             ItemD("group", "str", PyNone),
             ItemD("homedir", "str", Val("str", "/home/login")),
             ItemD("localdomain", "str", Val("str", "host")),
             ItemD("defaultdelivery", "str", Val("str", "./Maildir/")),
             ItemD("conf-break", "str", Val("str", "-")),
             ItemD("localpart_translate", "tuple", Val("tuple", "('', '')")),
             ItemD("strip_delivered_to", "bool", Val("bool", "False")),
             ItemD("allow_root_commands", "bool", Val("bool", "False"))>>
      [] c = "MDA_external" ->
           <<Item("path", "str"),
             ItemD("arguments", "tuple", Val("tuple", "()")),
             ItemD("unixfrom", "bool", Val("bool", "False")),
             ItemD("user", "str", PyNone),
             ItemD("group", "str", PyNone),
             ItemD("allow_root_commands", "bool", Val("bool", "False"))>>
      [] c = "MultiSorter" ->
           <<Item("default", "str"),
             ItemD("locals", "tuple", Val("tuple", "()")),
             ItemD("configparser", "instance", PyNone)>>
      [] OTHER -> <<>>

\* the names of the parameters of the class
Names(c) == {ConfItems(c)[i].name : i \in 1..Len(ConfItems(c))}

\* the texts a configuration file gives to a boolean parameter
FalseTexts == {"0", "false", "no", "off"}
TrueTexts == {"1", "true", "yes", "on"}
BoolTexts == FalseTexts \cup TrueTexts \cup {"False", "True", "OFF", "Yes"}

\* str.lower()
LowerText(s) ==
    CASE s = "False" -> "false"
      [] s = "True" -> "true"
      [] s = "OFF" -> "off"
      [] s = "Yes" -> "yes"
      [] OTHER -> s

\* eval(text): the value of a Python expression, or what evaluating it raises
Eval(s) ==
    CASE s \in {"0", "1"} -> Val("int", s)
      [] s \in {"True", "False"} -> Val("bool", s)
      [] s \in {"()", "('a', 'b')"} -> Val("tuple", s)
      [] s \in {"", "("} -> Val("raise", "SyntaxError")
      [] OTHER -> Val("raise", "NameError")

\* dtype(value)
ConvertKeeps(dtype, x) == x
Convert(dtype, x) ==
    CASE dtype = "bool" -> Val("bool", IF Truthy(x) THEN "True" ELSE "False")
      [] dtype = "str" -> Val("str", x.v)
      [] dtype = "tuple" /\ x.t = "tuple" -> x
      [] OTHER -> Val("raise", "TypeError")

\* the values the caller may give to a parameter
Choices(c, item) ==
    IF c = "MDA_qmaillocal" /\ item.name \in {"user", "group", "localdomain",
                                              "defaultdelivery", "conf-break"}
    THEN {Absent}
    ELSE IF item.name = "homedir" THEN {Val("str", "text")}
    ELSE IF item.type = "str" THEN {Absent, Val("str", "text")}
    ELSE IF item.type = "tuple"
    THEN {Absent, Val("tuple", "('a', 'b')"), Val("str", "('a', 'b')"),
          Val("str", "(")}
    ELSE IF item.type = "bool"
    THEN {Absent, Val("bool", "True")} \cup {Val("str", s) : s \in BoolTexts}
    ELSE {Absent, Val("instance", "parser")}

\* the mappings **args of a constructor call
RECURSIVE ArgsFrom(_, _)
ArgsFrom(c, i) ==
    IF i > Len(ConfItems(c)) THEN {<<>>}
    ELSE LET item == ConfItems(c)[i]
         IN  {(item.name :> x) @@ rest :
                 x \in Choices(c, item), rest \in ArgsFrom(c, i + 1)}

\* the values of a parameter named password
Passwords == {Val("str", "pw1"), Val("str", "pw2")}

\* __init__ stores every keyword it is given: the mappings of the parameters
\* of the class and of a password; initialize may add the key command
ArgsOf(c) ==
    {a @@ ("password" :> p) @@ ("command" :> Absent) :
        a \in ArgsFrom(c, 1), p \in {Absent, Val("str", "pw1")}}

\* the parameters initialize reads with self.conf[name], in order
InitializeReads(c) ==
    CASE c = "MDA_qmaillocal" -> <<"qmaillocal", "homedir">>
      [] c = "MDA_external" -> <<"path", "arguments">>
      [] c = "MultiSorter" -> <<"default", "locals">>
      [] OTHER -> <<>>

\* the parameter initialize requires to be a tuple already
InitializeTuple(c) ==
    CASE c = "MDA_external" -> {"arguments"}
      [] c = "MultiSorter" -> {"locals"}
      [] OTHER -> {}

\* how an operation ended
Op(o, k, w, n) == [op |-> o, kind |-> k, why |-> w, name |-> n]
NoOp == Op("none", "none", "", "")

\* DeliverySkeleton.__init__: how initialize ends on the mapping a
RECURSIVE InitializeFrom(_, _, _, _)
InitializeFrom(c, a, i, envOk) ==
    IF i > Len(InitializeReads(c))
    THEN IF envOk THEN Op("__init__", "ok", "", "")
         ELSE Op("__init__", "getmailConfigurationError", "environment", "")
    ELSE LET n == InitializeReads(c)[i]
         IN  IF a[n] = Absent
             THEN Op("__init__", "getmailConfigurationError", "missing", n)
             ELSE IF n \in InitializeTuple(c) /\ a[n].t # "tuple"
             THEN Op("__init__", "getmailConfigurationError", "format", n)
             ELSE InitializeFrom(c, a, i + 1, envOk)

\* checkconf from item i on: the mapping it leaves and how it ends
RECURSIVE CheckFrom(_, _, _)
CheckFrom(c, cf, i) ==
    IF i > Len(ConfItems(c))
    THEN [conf |-> cf, end |-> Op("checkconf", "ok", "", "")]
    ELSE
    LET item == ConfItems(c)[i]
        n == item.name
        val == cf[n]
        missing == Op("checkconf", "getmailConfigurationError", "missing", n)
        badtype == Op("checkconf", "getmailConfigurationError", "type", n)
        e == Eval(val.v)
        preset == IF item.type = "bool" /\ LowerText(val.v) \in FalseTexts
               THEN [cf EXCEPT ![n] = Val("bool", "False")]
               ELSE IF item.type = "bool" /\ LowerText(val.v) \in TrueTexts
               THEN [cf EXCEPT ![n] = Val("bool", "True")]
               ELSE cf
        x == Convert(item.type, e)
    IN  IF val = Absent
        THEN IF item.hasDefault
             THEN CheckFrom(c, [cf EXCEPT ![n] = item.default], i + 1)
             ELSE [conf |-> cf, end |-> missing]
        ELSE IF val.t = item.type THEN CheckFrom(c, cf, i + 1)
        ELSE IF val.t # "str"
        THEN [conf |-> cf,
              end |-> Op("checkconf",
                         IF item.type = "bool" THEN "AttributeError"
                         ELSE "TypeError", "", n)]
        ELSE IF e.t = "raise"
        THEN [conf |-> preset,
              end |-> IF e.v = "SyntaxError" THEN badtype
                      ELSE Op("checkconf", e.v, "", n)]
        ELSE IF x.t = "raise"
        THEN [conf |-> preset, end |-> Op("checkconf", x.v, "", n)]
        ELSE CheckFrom(c, [cf EXCEPT ![n] = x], i + 1)

\* DeliverySkeleton.__init__
Construct(envOk) ==
    /\ obj = "new"
    /\ LET end == InitializeFrom(cls, args, 1, envOk)
       IN  /\ cerr' = end
           /\ obj' = IF end.kind = "ok" THEN "constructed" ELSE "failed"
    /\ conf' = IF cls = "MDA_external" /\ args["path"] # Absent
               THEN [args EXCEPT !["command"] = args["path"]]
               ELSE args
    /\ confchecked' = FALSE
    /\ UNCHANGED <<cls, args, nchecks, shown>>
    /\ UNCHANGED <<mboxVars, maildirVars, sorterVars, extVars, laterVars>>

\* line 38: checkconf returns at once on a checked object
NeverChecked(flag) == FALSE
AlreadyChecked(flag) == flag

\* ConfigurableBase.checkconf
Checkconf ==
    /\ obj = "constructed"
    /\ nchecks < MaxChecks
    /\ nchecks' = nchecks + 1
    /\ IF AlreadyChecked(confchecked)
       THEN /\ cerr' = Op("checkconf", "ok", "", "")
            /\ UNCHANGED <<conf, confchecked>>
       ELSE LET r == CheckFrom(cls, conf, 1)
            IN  /\ conf' = r.conf
                /\ cerr' = r.end
                /\ confchecked' = (r.end.kind = "ok")
    /\ UNCHANGED <<cls, args, obj, shown>>
    /\ UNCHANGED <<mboxVars, maildirVars, sorterVars, extVars, laterVars>>

\* the names a mapping may hold, in the order list.sort() gives to them
KnownNames ==
    <<"allow_root_commands", "arguments", "command", "conf-break",
      "configparser", "default", "defaultdelivery", "group", "homedir",
      "localdomain", "localpart_translate", "locals", "password", "path",
      "qmaillocal", "strip_delivered_to", "unixfrom", "user">>
\* a < b on two names
Before(a, b) ==
    LET Rank(n) == CHOOSE i \in 1..Len(KnownNames) : KnownNames[i] = n
    IN  Rank(a) < Rank(b)

\* self.conf.keys()
Keys(cf) == {n \in DOMAIN cf : cf[n] # Absent}

\* names.sort()
RECURSIVE Sorted(_)
Sorted(S) ==
    IF S = {} THEN <<>>
    ELSE LET least == CHOOSE n \in S : \A m \in S \ {n} : Before(n, m)
         IN  <<least>> \o Sorted(S \ {least})

\* lines 76-79: what stands between the quotes after the name
ShownPlain(n, x) == x.v
Shown(n, x) == IF LowerText(n) = "password" THEN "*" ELSE x.v

\* the display string of the names from the i-th on, in pieces
RECURSIVE ConfStringFrom(_, _, _)
ConfStringFrom(cf, names, i) ==
    IF i > Len(names) THEN <<>>
    ELSE (IF i > 1 THEN <<", ">> ELSE <<>>)
         \o <<names[i], "=\"", Shown(names[i], cf[names[i]]), "\"">>
         \o ConfStringFrom(cf, names, i + 1)

\* ConfigurableBase._confstring
ConfString(cf) == ConfStringFrom(cf, Sorted(Keys(cf)), 1)

\* nothing was displayed yet
NoShown == [conf |-> <<>>, text |-> <<>>]

\* showconf of a class that does not override _confstring
Showconf ==
    /\ obj = "constructed"
    /\ cls # "MultiSorter"
    /\ shown' = [conf |-> conf, text |-> ConfString(conf)]
    /\ UNCHANGED <<cls, args, conf, confchecked, obj, cerr, nchecks>>
    /\ UNCHANGED <<mboxVars, maildirVars, sorterVars, extVars, laterVars>>

ConfigNext ==
    \/ \E envOk \in BOOLEAN : Construct(envOk)
    \/ Checkconf
    \/ Showconf

\* ------------------------------------ retriever_info and deliver_message

\* the destinations: the outermost one and those constructed under it
Root == 0
Nodes == Root..MaxSubs
\* the parent of the outermost destination
NoNode == -1

\* the three fields of a retriever, and of a destination before
\* retriever_info (lines 80-82)
Context(f, w, b) == [received_from |-> f, received_with |-> w, received_by |-> b]
NoContext == Context("None", "None", "None")
Retrievers == {Context("pop.example.net", "POP3", "host"),
               Context("imap.example.org", "IMAP4", "host")}

\* the trees _get_destination builds: every destination but the outermost is
\* appended to the _destinations of one that was constructed before it
Trees == {t \in [Nodes -> Nodes \cup {NoNode}] :
            /\ t[Root] = NoNode
            /\ \A n \in Nodes \ {Root} : t[n] \in Root..(n - 1)}

\* self._destinations of n from the i-th destination on, in order
RECURSIVE DestinationsFrom(_, _)
DestinationsFrom(n, i) ==
    IF i > MaxSubs THEN <<>>
    ELSE (IF parent[i] = n THEN <<i>> ELSE <<>>) \o DestinationsFrom(n, i + 1)

\* lines 597-598: the destinations retriever_info passes the retriever to
PassDownNone(n) == <<>>
PassDown(n) == DestinationsFrom(n, 1)

\* retriever_info on the destinations of todo, first to last
RECURSIVE RetrieverInfoAll(_, _, _)
RetrieverInfoAll(st, todo, r) ==
    IF todo = <<>> THEN st
    ELSE LET n == Head(todo)
         IN  RetrieverInfoAll([st EXCEPT ![n] = r], PassDown(n) \o Tail(todo), r)

\* lines 93-95: the fields of the message after the destination has set them
Attach(msgfields, own) == own

\* the children a composite delivers to, out of those chosen
RECURSIVE Chosen(_, _)
Chosen(ds, sel) ==
    IF ds = <<>> THEN <<>>
    ELSE (IF Head(ds) \in sel THEN <<Head(ds)>> ELSE <<>>) \o Chosen(Tail(ds), sel)

\* deliver_message on the destinations of todo, first to last, on one message
\* object: each sets the fields and runs its primitive, and a composite's
\* primitive calls deliver_message of the children it delivers to
RECURSIVE DeliverAll(_, _, _)
DeliverAll(todo, sel, msgfields) ==
    IF todo = <<>> THEN <<>>
    ELSE LET n == Head(todo)
             carried == Attach(msgfields, stored[n])
         IN  <<[node |-> n, fields |-> carried, applied |-> lastctx[n]]>>
             \o DeliverAll(Chosen(DestinationsFrom(n, 1), sel) \o Tail(todo),
                           sel, carried)

\* n is d, or a destination under d
RECURSIVE Under(_, _)
Under(n, d) == n = d \/ (n # Root /\ Under(parent[n], d))

\* retriever_info(retriever) on the destination d
RetrieverInfo(d, r) ==
    /\ stored' = RetrieverInfoAll(stored, <<d>>, r)
    /\ lastctx' = [n \in Nodes |-> IF Under(n, d) THEN r ELSE lastctx[n]]
    /\ UNCHANGED <<parent, handed>>
    /\ UNCHANGED exceptProv

\* deliver_message(msg) on the destination d; a composite delivers to some
\* of its children (MultiSorter) or to all of them (MultiDestination)
DeliverMessage(d, sel, msgfields) ==
    /\ \A n \in Nodes : DestinationsFrom(n, 1) # <<>>
                        => Chosen(DestinationsFrom(n, 1), sel) # <<>>
    /\ handed' = DeliverAll(<<d>>, sel, msgfields)
    /\ UNCHANGED <<parent, stored, lastctx>>
    /\ UNCHANGED exceptProv

ProvenanceNext ==
    \/ \E d \in Nodes, r \in Retrievers : RetrieverInfo(d, r)
    \/ \E d \in Nodes, sel \in SUBSET Nodes,
          msgfields \in Retrievers \cup {NoContext} :
            DeliverMessage(d, sel, msgfields)

\* ------------------------------------------------------- _get_destination

\* the characters of a destination string
PathChars == {"[", "]", "/", ".", "~", "a"}
\* expand_user_vars: a leading ~ alone or before / becomes the home directory
ExpandUserVars(p) ==
    IF p # <<>> /\ p[1] = "~" /\ (Len(p) = 1 \/ p[2] = "/")
    THEN <<"/", "h">> \o Tail(p)
    ELSE p

\* str.startswith and str.endswith on one character
StartsWith(p, c) == p # <<>> /\ p[1] = c
EndsWith(p, c) == p # <<>> /\ p[Len(p)] = c

\* the destination classes of the module
DestinationTypes == {"Maildir", "Mboxrd", "MDA_qmaillocal", "MDA_external",
                     "MultiDestination", "MultiSorter"}
\* the names __all__ exports: the destination classes and their base classes
Exported == DestinationTypes \cup {"DeliverySkeleton", "MultiDestinationBase"}
\* the callable names of globals(): the classes the module defines and the
\* classes it imports
CallableGlobals == Exported \cup {"ConfigurableBase", "ForkingBase"}
\* the texts of the type option: a callable global, a module that is a global
\* and not callable, a name that is no global
TypeNames == CallableGlobals \cup {"os", "re"} \cup {"maildir"}

\* line 569: callable(globals().get(destination_type, None))
Callable(t) == t \in CallableGlobals

\* how a call ends
Resolution(rule, cl, e, w) == [rule |-> rule, made |-> cl, raised |-> e, why |-> w]
NotResolved == Resolution("none", "none", "none", "")

\* lines 559-583 on the expanded string p
Dispatch(p, secs, t) ==
    IF StartsWith(p, "[") /\ EndsWith(p, "]")
    THEN IF SubSeq(p, 2, Len(p) - 1) \notin secs
         THEN Resolution("section", "none", "getmailConfigurationError",
                         "section name which does not exist")
         ELSE IF ~Callable(t)
         THEN Resolution("section", "none", "getmailConfigurationError",
                         "incorrect destination type")
         ELSE Resolution("section", t, "none", "")
    ELSE IF (StartsWith(p, "/") \/ StartsWith(p, ".")) /\ EndsWith(p, "/")
    THEN Resolution("maildir", "Maildir", "none", "")
    ELSE IF StartsWith(p, "/") \/ StartsWith(p, ".")
    THEN Resolution("mboxrd", "Mboxrd", "none", "")
    ELSE Resolution("none", "none", "getmailConfigurationError",
                    "not of recognized type")

\* MultiDestinationBase._get_destination(path)
GetDestination ==
    /\ resolved = NotResolved
    /\ resolved' = Dispatch(ExpandUserVars(spath), sections, sectype)
    /\ UNCHANGED <<sections, sectype, spath>>
    /\ UNCHANGED exceptRes

ResolveNext == GetDestination

\* ------------------------------------------------------ Mboxrd.initialize

\* what a path names: nothing ("missing"), a regular file and its content,
\* or something else ("other": a directory, a device)
PathIs(k, c) == [kind |-> k, content |-> c]

\* the contents of the file
FromLine == <<"F", "r", "o", "m", " ">>
FileContents ==
    {<<>>,
     FromLine,
     FromLine \o <<"a", "\n", "X">>,
     <<"F", "r", "o", "m">>,
     <<"F", "r", "o", "m", "\n">>,
     <<"f", "r", "o", "m", " ">>,
     <<"\n">> \o FromLine,
     <<" ">> \o FromLine,
     <<"X", "\n">> \o FromLine}

\* the paths initialize may be given
PathStates ==
    {PathIs("missing", <<>>), PathIs("other", <<>>)}
    \cup {PathIs("file", c) : c \in FileContents}

\* file.readline() at offset 0: the characters up to the first newline, the
\* newline included
RECURSIVE Readline(_)
Readline(f) ==
    IF f = <<>> THEN <<>>
    ELSE IF Head(f) = "\n" THEN <<"\n">>
    ELSE <<Head(f)>> \o Readline(Tail(f))

\* line 183: the test on first_line and on first_line[:5]
NotMbox(l) == l # <<>> /\ SubSeq(l, 1, IF Len(l) < 5 THEN Len(l) ELSE 5) # FromLine

\* how initialize ended
InitEnd(k, w) == [kind |-> k, why |-> w]

\* lines 159-178: the tests on the path, the creation of a missing file, the
\* open of an existing one
InitializeOpen(osOk) ==
    /\ ipc = "start"
    /\ IF ipath.kind = "other"
       THEN /\ iresult' = InitEnd("getmailConfigurationError", "not an mboxrd file")
            /\ ipc' = "done"
            /\ UNCHANGED ipath
       ELSE IF ipath.kind = "missing"
       THEN /\ ipath' = PathIs("file", <<>>)
            /\ iresult' = IF osOk THEN InitEnd("ok", "") ELSE InitEnd("OSError", "")
            /\ ipc' = "done"
       ELSE /\ iresult' = IF osOk THEN InitEnd("none", "") ELSE InitEnd("IOError", "")
            /\ ipc' = IF osOk THEN "lock" ELSE "done"
            /\ UNCHANGED ipath
    /\ UNCHANGED <<iwas, ilock, ifirst>>
    /\ UNCHANGED exceptInit

\* line 179: lock_file(self.f) returns when no other process holds the lock
InitializeLock ==
    /\ ipc = "lock"
    /\ ilock = "none"
    /\ ilock' = "self"
    /\ ipc' = "read"
    /\ UNCHANGED <<ipath, iwas, ifirst, iresult>>
    /\ UNCHANGED exceptInit

\* lines 180-185: seek, readline, unlock_file and the test; seek and readline
\* may raise IOError
InitializeRead(readOk) ==
    /\ ipc = "read"
    /\ IF readOk
       THEN LET first_line == Readline(ipath.content)
            IN  /\ ifirst' = first_line
                /\ ilock' = "none"
                /\ iresult' = IF NotMbox(first_line)
                              THEN InitEnd("getmailConfigurationError",
                                           "is not an mbox file")
                              ELSE InitEnd("ok", "")
       ELSE /\ iresult' = InitEnd("IOError", "")
            /\ UNCHANGED <<ifirst, ilock>>
    /\ ipc' = "done"
    /\ UNCHANGED <<ipath, iwas>>
    /\ UNCHANGED exceptInit

\* lines 187-192: __del__, when the destination is torn down
InitializeDel ==
    /\ ipc = "done"
    /\ ipc' = "deleted"
    /\ ilock' = IF ilock = "self" THEN "none" ELSE ilock
    /\ UNCHANGED <<ipath, iwas, ifirst, iresult>>
    /\ UNCHANGED exceptInit

\* another process takes or releases the lock on the file
OtherLocks ==
    /\ ipath.kind = "file"
    /\ ilock = "none"
    /\ ilock' = "other"
    /\ UNCHANGED <<ipath, iwas, ipc, ifirst, iresult>>
    /\ UNCHANGED exceptInit

OtherUnlocks ==
    /\ ilock = "other"
    /\ ilock' = "none"
    /\ UNCHANGED <<ipath, iwas, ipc, ifirst, iresult>>
    /\ UNCHANGED exceptInit

MboxInitNext ==
    \/ \E osOk \in BOOLEAN : InitializeOpen(osOk)
    \/ InitializeLock
    \/ \E readOk \in BOOLEAN : InitializeRead(readOk)
    \/ InitializeDel
    \/ OtherLocks
    \/ OtherUnlocks

\* ------------------------------------ the arguments of the delivery program

\* a string is the sequence of its characters; a placeholder of a template
\* is one piece of it

\* str.lower()
LowerStr(s) == [i \in 1..Len(s) |-> Lower(s[i])]

\* s[i:] for i counted from 1
From(s, i) == SubSeq(s, i, Len(s))

\* str.startswith(p)
HasPrefix(s, p) == Len(p) <= Len(s) /\ SubSeq(s, 1, Len(p)) = p

\* str.find(b) counted from 1: where b first occurs in s, 0 if nowhere
RECURSIVE FindFrom(_, _, _)
FindFrom(s, b, i) ==
    IF i + Len(b) - 1 > Len(s) THEN 0
    ELSE IF SubSeq(s, i, i + Len(b) - 1) = b THEN i
    ELSE FindFrom(s, b, i + 1)
Find(s, b) == FindFrom(s, b, 1)

\* str.split(sep), sep not empty
RECURSIVE Split(_, _)
Split(s, sep) ==
    LET k == Find(s, sep)
    IN  IF k = 0 THEN <<s>>
        ELSE <<SubSeq(s, 1, k - 1)>> \o Split(From(s, k + Len(sep)), sep)

\* sep.join(parts)
RECURSIVE Join(_, _)
Join(parts, sep) ==
    IF parts = <<>> THEN <<>>
    ELSE IF Len(parts) = 1 THEN parts[1]
    ELSE parts[1] \o sep \o Join(Tail(parts), sep)

\* msg.recipient of a message whose retriever kept no envelope
NoRecipient == <<"None">>
\* msg.recipient
EnvelopeRecipients ==
    {NoRecipient,
     <<"A", "-", "b", "@", "x">>,
     <<"a", "b">>,
     <<"a", "@", "b", "@", "x">>,
     <<"a", "-", "b", "-", "-", "a", "@", "x">>,
     <<"b", "a", "-", "@", "X">>,
     <<"@", "x">>}
\* msg.sender of a message without a return path
NoSender == <<"None">>
\* msg.sender: None, an address, the empty sender of a bounce, text with blanks
\* and shell characters, and text that reads as a placeholder
Senders ==
    {NoSender, <<"s", "@", "x">>, <<>>, <<"s", " ", ";", "x">>, <<"%(recipient)">>}

\* the placeholders, and the templates of self.conf['arguments']
Placeholder(key) ==
    CASE key = "sender" -> "%(sender)"
      [] key = "recipient" -> "%(recipient)"
      [] key = "domain" -> "%(domain)"
      [] key = "local" -> "%(local)"
Templates ==
    {<<"%(sender)">>,
     <<"-", "f", " ", "%(sender)">>,
     <<"%(local)", "@", "%(domain)">>,
     <<"%(recipient)", "%(sender)">>,
     <<"-", "x">>}

\* self.conf['path'] of MDA_external, self.conf['qmaillocal'] of MDA_qmaillocal
ConfPath == <<"/", "m">>

\* what the arguments are built from
ArgInput(v, r, s, x, b, t) ==
    [variant |-> v, rcpt |-> r, sender |-> s, xlate |-> x, break |-> b,
     templates |-> t]
NoArgInput == ArgInput("none", NoRecipient, <<>>, <<<<>>, <<>>>>, <<"-">>, <<>>)
ArgInputs ==
    LET \* self.conf['localpart_translate']
        Translations ==
            {<<<<>>, <<>>>>, <<<<"a">>, <<>>>>, <<<<"a", "-">>, <<"b">>>>,
             <<<<>>, <<"x", "-">>>>, <<<<"A">>, <<"b">>>>}
        \* self.conf['conf-break']
        Breaks == {<<"-">>, <<"-", "-">>, <<"+">>}
        \* self.conf['arguments']
        TemplateLists == SeqsUpTo(Templates, MaxTemplates)
    IN  {ArgInput("MDA_qmaillocal", r, <<"s", "@", "x">>, x, b, <<>>) :
            r \in EnvelopeRecipients, x \in Translations, b \in Breaks}
        \cup {ArgInput("MDA_external", r, s, <<<<>>, <<>>>>, <<"-">>, t) :
                r \in EnvelopeRecipients, s \in Senders, t \in TemplateLists}

\* msginfo: the value of each key, and the keys it holds
Info(keys, s, r, d, l, dash, ext) ==
    [keys |-> keys, sender |-> s, recipient |-> r, domain |-> d, local |-> l,
     dash |-> dash, ext |-> ext]
NoInfo == Info({}, <<>>, <<>>, <<>>, <<>>, <<>>, <<>>)

\* lines 357-360: the translation of the local part
TranslatedNever(local, xlate) == local
Translated(local, xlate) ==
    IF (xlate[1] # <<>> \/ xlate[2] # <<>>) /\ HasPrefix(local, xlate[1])
    THEN xlate[2] \o From(local, Len(xlate[1]) + 1)
    ELSE local

\* lines 350-369: msginfo of MDA_qmaillocal
QmailInfo(in) ==
    LET parts == Split(LowerStr(in.rcpt), <<"@">>)
        local == Translated(Join(SubSeq(parts, 1, Len(parts) - 1), <<"@">>),
                            in.xlate)
        found == Find(local, in.break) # 0
    IN  Info({"sender", "local", "dash", "ext"}, in.sender, <<>>, <<>>, local,
             IF found THEN in.break ELSE <<>>,
             IF found THEN Join(Tail(Split(local, in.break)), in.break)
             ELSE <<>>)

\* lines 503-508: msginfo of MDA_external
ExternalInfo(in) ==
    IF in.rcpt = NoRecipient
    THEN Info({"sender"}, in.sender, <<>>, <<>>, <<>>, <<>>, <<>>)
    ELSE LET parts == Split(in.rcpt, <<"@">>)
             lparts == Split(LowerStr(in.rcpt), <<"@">>)
         IN  Info({"sender", "recipient", "domain", "local"}, in.sender,
                  in.rcpt, lparts[Len(lparts)],
                  Join(SubSeq(parts, 1, Len(parts) - 1), <<"@">>), <<>>, <<>>)

\* arg.replace('%(key)', value)
RECURSIVE Replace(_, _, _)
Replace(arg, key, value) ==
    IF arg = <<>> THEN <<>>
    ELSE (IF Head(arg) = Placeholder(key) THEN value ELSE <<Head(arg)>>)
         \o Replace(Tail(arg), key, value)

\* lines 490-491: the replacements, in the order msginfo.items() gives
RECURSIVE ReplaceAll(_, _, _)
ReplaceAll(arg, order, info) ==
    IF order = <<>> THEN arg
    ELSE ReplaceAll(Replace(arg, Head(order), info[Head(order)]), Tail(order), info)

\* line 492: args.append(arg)
AppendNonEmpty(argl, arg) == IF arg = <<>> THEN argl ELSE Append(argl, arg)
AppendArg(argl, arg) == Append(argl, arg)

\* lines 488-492: args after the templates from the i-th on
RECURSIVE ArgsAfter(_, _, _, _, _)
ArgsAfter(argl, templates, i, order, info) ==
    IF i > Len(templates) THEN argl
    ELSE ArgsAfter(AppendArg(argl, ReplaceAll(templates[i], order, info)),
                   templates, i + 1, order, info)

\* the orders msginfo.items() may give to the keys
Orders(keys) ==
    {o \in [1..Cardinality(keys) -> keys] :
        \A i, j \in DOMAIN o : i # j => o[i] # o[j]}

\* MDA_qmaillocal._deliver_message, _deliver_qmaillocal: msginfo and the
\* arguments of os.execl (line 320)
QmailArgs ==
    /\ aend = "none"
    /\ ain.variant = "MDA_qmaillocal"
    /\ IF ain.rcpt = NoRecipient
       THEN /\ aend' = QmailNoRecipientRaises
            /\ UNCHANGED <<ainfo, aargv>>
       ELSE LET info == QmailInfo(ain)
                user == <<"u">>
                homedir == <<"/", "h">>
                localdomain == <<"x">>
                defaultdelivery == <<".", "/">>
                argl == <<ConfPath, ConfPath, <<"-", "-">>, user, homedir,
                          info.local, info.dash, info.ext, localdomain,
                          info.sender, defaultdelivery>>
            IN  /\ ainfo' = info
                /\ aargv' = Tail(argl)
                /\ aend' = "execl"
    /\ UNCHANGED ain
    /\ UNCHANGED exceptArgv

\* MDA_external._deliver_message, _deliver_command: msginfo and the arguments
\* of os.execl (lines 487-495); str.replace raises TypeError on the sender None
ExternalArgs(order) ==
    /\ aend = "none"
    /\ ain.variant = "MDA_external"
    /\ LET info == ExternalInfo(ain)
       IN  /\ order \in Orders(info.keys)
           /\ ainfo' = info
           /\ IF ain.sender = NoSender /\ ain.templates # <<>>
              THEN /\ aend' = "TypeError"
                   /\ UNCHANGED aargv
              ELSE /\ aend' = "execl"
                   /\ aargv' = Tail(ArgsAfter(<<ConfPath, ConfPath>>,
                                              ain.templates, 1, order, info))
    /\ UNCHANGED ain
    /\ UNCHANGED exceptArgv

InfoKeys == {"sender", "recipient", "domain", "local"}

ArgvNext ==
    \/ QmailArgs
    \/ \E order \in SeqsUpTo(InfoKeys, 4) : ExternalArgs(order)

\* ---------------------------------------------------------- specifications

\* lines 80-82, 118, 157-185: every destination is constructed: the mbox file
\* exists and is empty, the maildir is empty, the counters are 0; the
\* composite is a MultiSorter without routes
Init ==
    /\ mbox = <<>>
    /\ lockHolder = NoProc
    /\ pc = [p \in Procs |-> "idle"]
    /\ statusOld = [p \in Procs |-> 0]
    /\ written = [p \in Procs |-> 0]
    /\ result = [p \in Procs |-> "none"]
    /\ ncalls = [p \in Procs |-> 0]
    /\ fclosed = [p \in Procs |-> FALSE]
    /\ completed = {}
    /\ atLock = [p \in Procs |-> <<>>]
    /\ atReturn = [p \in Procs |-> <<>>]
    /\ ioFailed = [p \in Procs |-> FALSE]
    /\ utimeFailed = [p \in Procs |-> FALSE]
    /\ truncFailed = FALSE
    /\ clock = 0
    /\ tmpdir = <<>>
    /\ newdir = <<>>
    /\ mdpc = [i \in Insts |-> "idle"]
    /\ mdname = [i \in Insts |-> <<>>]
    /\ dcount = [i \in Insts |-> InitialDcount]
    /\ mdcalls = [i \in Insts |-> 0]
    /\ mdresult = [i \in Insts |-> "none"]
    /\ used = [i \in Insts |-> <<>>]
    /\ mdfails = [i \in Insts |-> 0]
    /\ leftover = {}
    /\ kind = "MultiSorter"
    /\ targets = <<>>
    /\ ndests = 0
    /\ cpc = "idle"
    /\ recipient = None
    /\ idx = 1
    /\ matched = <<>>
    /\ log = <<>>
    /\ attempts = <<>>
    /\ cresult = "none"
    /\ childFailed = NoChild
    /\ childErr = "none"
    /\ variant = "MDA_external"
    /\ euid = "user"
    /\ allowRoot = Absent
    /\ confUser = Absent
    /\ xrcpt = FALSE
    /\ ppc = "idle"
    /\ pstep = 1
    /\ child = "none"
    /\ ctrace = <<>>
    /\ cfail = "none"
    /\ cexit = NoExit
    /\ exitcode = NoExit
    /\ rawOut = <<>>
    /\ rawErr = <<>>
    /\ xresult = NoResult
    /\ forks = 0
    /\ prev = [exit |-> NoExit, res |-> NoResult]
    /\ xcalls = 0
    /\ cls = "none"
    /\ args = <<>>
    /\ conf = <<>>
    /\ confchecked = FALSE
    /\ obj = "new"
    /\ cerr = NoOp
    /\ nchecks = 0
    /\ shown = NoShown
    /\ parent = [n \in Nodes |-> IF n = Root THEN NoNode ELSE Root]
    /\ stored = [n \in Nodes |-> NoContext]
    /\ lastctx = [n \in Nodes |-> NoContext]
    /\ handed = <<>>
    /\ sections = {}
    /\ sectype = "Maildir"
    /\ spath = <<>>
    /\ resolved = NotResolved
    /\ ipath = PathIs("file", <<>>)
    /\ iwas = "file"
    /\ ilock = "none"
    /\ ipc = "done"
    /\ ifirst = <<>>
    /\ iresult = InitEnd("ok", "")
    /\ ain = NoArgInput
    /\ ainfo = NoInfo
    /\ aargv = <<>>
    /\ aend = "none"

\* lines 616-627, 701-723: as Init, and the composite is a MultiDestination
\* with at least one child, or a MultiSorter with a default and any routes
InitSorter ==
    /\ mbox = <<>>
    /\ lockHolder = NoProc
    /\ pc = [p \in Procs |-> "idle"]
    /\ statusOld = [p \in Procs |-> 0]
    /\ written = [p \in Procs |-> 0]
    /\ result = [p \in Procs |-> "none"]
    /\ ncalls = [p \in Procs |-> 0]
    /\ fclosed = [p \in Procs |-> FALSE]
    /\ completed = {}
    /\ atLock = [p \in Procs |-> <<>>]
    /\ atReturn = [p \in Procs |-> <<>>]
    /\ ioFailed = [p \in Procs |-> FALSE]
    /\ utimeFailed = [p \in Procs |-> FALSE]
    /\ truncFailed = FALSE
    /\ clock = 0
    /\ tmpdir = <<>>
    /\ newdir = <<>>
    /\ mdpc = [i \in Insts |-> "idle"]
    /\ mdname = [i \in Insts |-> <<>>]
    /\ dcount = [i \in Insts |-> InitialDcount]
    /\ mdcalls = [i \in Insts |-> 0]
    /\ mdresult = [i \in Insts |-> "none"]
    /\ used = [i \in Insts |-> <<>>]
    /\ mdfails = [i \in Insts |-> 0]
    /\ leftover = {}
    /\ kind \in {"MultiSorter", "MultiDestination"}
    /\ targets \in SeqsUpTo(Patterns, MaxRoutes)
    /\ ndests \in 0..MaxDests
    /\ kind = "MultiSorter" => ndests = 0
    /\ kind = "MultiDestination" => targets = <<>> /\ ndests >= 1
    /\ cpc = "idle"
    /\ recipient = None
    /\ idx = 1
    /\ matched = <<>>
    /\ log = <<>>
    /\ attempts = <<>>
    /\ cresult = "none"
    /\ childFailed = NoChild
    /\ childErr = "none"
    /\ variant = "MDA_external"
    /\ euid = "user"
    /\ allowRoot = Absent
    /\ confUser = Absent
    /\ xrcpt = FALSE
    /\ ppc = "idle"
    /\ pstep = 1
    /\ child = "none"
    /\ ctrace = <<>>
    /\ cfail = "none"
    /\ cexit = NoExit
    /\ exitcode = NoExit
    /\ rawOut = <<>>
    /\ rawErr = <<>>
    /\ xresult = NoResult
    /\ forks = 0
    /\ prev = [exit |-> NoExit, res |-> NoResult]
    /\ xcalls = 0
    /\ cls = "none"
    /\ args = <<>>
    /\ conf = <<>>
    /\ confchecked = FALSE
    /\ obj = "new"
    /\ cerr = NoOp
    /\ nchecks = 0
    /\ shown = NoShown
    /\ parent = [n \in Nodes |-> IF n = Root THEN NoNode ELSE Root]
    /\ stored = [n \in Nodes |-> NoContext]
    /\ lastctx = [n \in Nodes |-> NoContext]
    /\ handed = <<>>
    /\ sections = {}
    /\ sectype = "Maildir"
    /\ spath = <<>>
    /\ resolved = NotResolved
    /\ ipath = PathIs("file", <<>>)
    /\ iwas = "file"
    /\ ilock = "none"
    /\ ipc = "done"
    /\ ifirst = <<>>
    /\ iresult = InitEnd("ok", "")
    /\ ain = NoArgInput
    /\ ainfo = NoInfo
    /\ aargv = <<>>
    /\ aend = "none"

\* lines 292-310, 446-464: as Init, and the destination is an MDA_qmaillocal
\* or an MDA_external, constructed, with the configuration it was given
InitExternal ==
    /\ mbox = <<>>
    /\ lockHolder = NoProc
    /\ pc = [p \in Procs |-> "idle"]
    /\ statusOld = [p \in Procs |-> 0]
    /\ written = [p \in Procs |-> 0]
    /\ result = [p \in Procs |-> "none"]
    /\ ncalls = [p \in Procs |-> 0]
    /\ fclosed = [p \in Procs |-> FALSE]
    /\ completed = {}
    /\ atLock = [p \in Procs |-> <<>>]
    /\ atReturn = [p \in Procs |-> <<>>]
    /\ ioFailed = [p \in Procs |-> FALSE]
    /\ utimeFailed = [p \in Procs |-> FALSE]
    /\ truncFailed = FALSE
    /\ clock = 0
    /\ tmpdir = <<>>
    /\ newdir = <<>>
    /\ mdpc = [i \in Insts |-> "idle"]
    /\ mdname = [i \in Insts |-> <<>>]
    /\ dcount = [i \in Insts |-> InitialDcount]
    /\ mdcalls = [i \in Insts |-> 0]
    /\ mdresult = [i \in Insts |-> "none"]
    /\ used = [i \in Insts |-> <<>>]
    /\ mdfails = [i \in Insts |-> 0]
    /\ leftover = {}
    /\ kind = "MultiSorter"
    /\ targets = <<>>
    /\ ndests = 0
    /\ cpc = "idle"
    /\ recipient = None
    /\ idx = 1
    /\ matched = <<>>
    /\ log = <<>>
    /\ attempts = <<>>
    /\ cresult = "none"
    /\ childFailed = NoChild
    /\ childErr = "none"
    /\ variant \in {"MDA_qmaillocal", "MDA_external"}
    /\ euid \in {"root", "user"}
    /\ allowRoot \in AllowRootValues
    /\ confUser \in UserValues
    /\ variant = "MDA_qmaillocal" => confUser # PyNone
    /\ xrcpt = FALSE
    /\ ppc = "idle"
    /\ pstep = 1
    /\ child = "none"
    /\ ctrace = <<>>
    /\ cfail = "none"
    /\ cexit = NoExit
    /\ exitcode = NoExit
    /\ rawOut = <<>>
    /\ rawErr = <<>>
    /\ xresult = NoResult
    /\ forks = 0
    /\ prev = [exit |-> NoExit, res |-> NoResult]
    /\ xcalls = 0
    /\ cls = "none"
    /\ args = <<>>
    /\ conf = <<>>
    /\ confchecked = FALSE
    /\ obj = "new"
    /\ cerr = NoOp
    /\ nchecks = 0
    /\ shown = NoShown
    /\ parent = [n \in Nodes |-> IF n = Root THEN NoNode ELSE Root]
    /\ stored = [n \in Nodes |-> NoContext]
    /\ lastctx = [n \in Nodes |-> NoContext]
    /\ handed = <<>>
    /\ sections = {}
    /\ sectype = "Maildir"
    /\ spath = <<>>
    /\ resolved = NotResolved
    /\ ipath = PathIs("file", <<>>)
    /\ iwas = "file"
    /\ ilock = "none"
    /\ ipc = "done"
    /\ ifirst = <<>>
    /\ iresult = InitEnd("ok", "")
    /\ ain = NoArgInput
    /\ ainfo = NoInfo
    /\ aargv = <<>>
    /\ aend = "none"

\* baseclasses.py lines 27-34: as Init, and a constructor of a destination
\* class is about to be called on some mapping
InitConfig ==
    /\ mbox = <<>>
    /\ lockHolder = NoProc
    /\ pc = [p \in Procs |-> "idle"]
    /\ statusOld = [p \in Procs |-> 0]
    /\ written = [p \in Procs |-> 0]
    /\ result = [p \in Procs |-> "none"]
    /\ ncalls = [p \in Procs |-> 0]
    /\ fclosed = [p \in Procs |-> FALSE]
    /\ completed = {}
    /\ atLock = [p \in Procs |-> <<>>]
    /\ atReturn = [p \in Procs |-> <<>>]
    /\ ioFailed = [p \in Procs |-> FALSE]
    /\ utimeFailed = [p \in Procs |-> FALSE]
    /\ truncFailed = FALSE
    /\ clock = 0
    /\ tmpdir = <<>>
    /\ newdir = <<>>
    /\ mdpc = [i \in Insts |-> "idle"]
    /\ mdname = [i \in Insts |-> <<>>]
    /\ dcount = [i \in Insts |-> InitialDcount]
    /\ mdcalls = [i \in Insts |-> 0]
    /\ mdresult = [i \in Insts |-> "none"]
    /\ used = [i \in Insts |-> <<>>]
    /\ mdfails = [i \in Insts |-> 0]
    /\ leftover = {}
    /\ kind = "MultiSorter"
    /\ targets = <<>>
    /\ ndests = 0
    /\ cpc = "idle"
    /\ recipient = None
    /\ idx = 1
    /\ matched = <<>>
    /\ log = <<>>
    /\ attempts = <<>>
    /\ cresult = "none"
    /\ childFailed = NoChild
    /\ childErr = "none"
    /\ variant = "MDA_external"
    /\ euid = "user"
    /\ allowRoot = Absent
    /\ confUser = Absent
    /\ xrcpt = FALSE
    /\ ppc = "idle"
    /\ pstep = 1
    /\ child = "none"
    /\ ctrace = <<>>
    /\ cfail = "none"
    /\ cexit = NoExit
    /\ exitcode = NoExit
    /\ rawOut = <<>>
    /\ rawErr = <<>>
    /\ xresult = NoResult
    /\ forks = 0
    /\ prev = [exit |-> NoExit, res |-> NoResult]
    /\ xcalls = 0
    /\ cls \in Classes
    /\ args \in ArgsOf(cls)
    /\ conf = <<>>
    /\ confchecked = FALSE
    /\ obj = "new"
    /\ cerr = NoOp
    /\ nchecks = 0
    /\ shown = NoShown
    /\ parent = [n \in Nodes |-> IF n = Root THEN NoNode ELSE Root]
    /\ stored = [n \in Nodes |-> NoContext]
    /\ lastctx = [n \in Nodes |-> NoContext]
    /\ handed = <<>>
    /\ sections = {}
    /\ sectype = "Maildir"
    /\ spath = <<>>
    /\ resolved = NotResolved
    /\ ipath = PathIs("file", <<>>)
    /\ iwas = "file"
    /\ ilock = "none"
    /\ ipc = "done"
    /\ ifirst = <<>>
    /\ iresult = InitEnd("ok", "")
    /\ ain = NoArgInput
    /\ ainfo = NoInfo
    /\ aargv = <<>>
    /\ aend = "none"

\* processes delivering to one mbox file
SpecMbox == Init /\ [][MboxNext]_vars

\* Maildir instances delivering to one maildir
SpecMaildir == Init /\ [][MaildirNext]_vars

\* a MultiSorter or a MultiDestination delivering to its children
SpecSorter == InitSorter /\ [][SorterNext]_vars

\* an MDA destination, its child and the delivery program
SpecExternal == InitExternal /\ [][ExternalNext]_vars

\* the construction of a destination, and checkconf
SpecConfig == InitConfig /\ [][ConfigNext]_vars

\* lines 80-82, 586-589: as Init, and a tree of destinations was constructed,
\* none of which has seen a retriever
InitProvenance ==
    /\ mbox = <<>>
    /\ lockHolder = NoProc
    /\ pc = [p \in Procs |-> "idle"]
    /\ statusOld = [p \in Procs |-> 0]
    /\ written = [p \in Procs |-> 0]
    /\ result = [p \in Procs |-> "none"]
    /\ ncalls = [p \in Procs |-> 0]
    /\ fclosed = [p \in Procs |-> FALSE]
    /\ completed = {}
    /\ atLock = [p \in Procs |-> <<>>]
    /\ atReturn = [p \in Procs |-> <<>>]
    /\ ioFailed = [p \in Procs |-> FALSE]
    /\ utimeFailed = [p \in Procs |-> FALSE]
    /\ truncFailed = FALSE
    /\ clock = 0
    /\ tmpdir = <<>>
    /\ newdir = <<>>
    /\ mdpc = [i \in Insts |-> "idle"]
    /\ mdname = [i \in Insts |-> <<>>]
    /\ dcount = [i \in Insts |-> InitialDcount]
    /\ mdcalls = [i \in Insts |-> 0]
    /\ mdresult = [i \in Insts |-> "none"]
    /\ used = [i \in Insts |-> <<>>]
    /\ mdfails = [i \in Insts |-> 0]
    /\ leftover = {}
    /\ kind = "MultiSorter"
    /\ targets = <<>>
    /\ ndests = 0
    /\ cpc = "idle"
    /\ recipient = None
    /\ idx = 1
    /\ matched = <<>>
    /\ log = <<>>
    /\ attempts = <<>>
    /\ cresult = "none"
    /\ childFailed = NoChild
    /\ childErr = "none"
    /\ variant = "MDA_external"
    /\ euid = "user"
    /\ allowRoot = Absent
    /\ confUser = Absent
    /\ xrcpt = FALSE
    /\ ppc = "idle"
    /\ pstep = 1
    /\ child = "none"
    /\ ctrace = <<>>
    /\ cfail = "none"
    /\ cexit = NoExit
    /\ exitcode = NoExit
    /\ rawOut = <<>>
    /\ rawErr = <<>>
    /\ xresult = NoResult
    /\ forks = 0
    /\ prev = [exit |-> NoExit, res |-> NoResult]
    /\ xcalls = 0
    /\ cls = "none"
    /\ args = <<>>
    /\ conf = <<>>
    /\ confchecked = FALSE
    /\ obj = "new"
    /\ cerr = NoOp
    /\ nchecks = 0
    /\ shown = NoShown
    /\ parent \in Trees
    /\ stored = [n \in Nodes |-> NoContext]
    /\ lastctx = [n \in Nodes |-> NoContext]
    /\ handed = <<>>
    /\ sections = {}
    /\ sectype = "Maildir"
    /\ spath = <<>>
    /\ resolved = NotResolved
    /\ ipath = PathIs("file", <<>>)
    /\ iwas = "file"
    /\ ilock = "none"
    /\ ipc = "done"
    /\ ifirst = <<>>
    /\ iresult = InitEnd("ok", "")
    /\ ain = NoArgInput
    /\ ainfo = NoInfo
    /\ aargv = <<>>
    /\ aend = "none"

\* retriever_info and deliver_message on a tree of destinations
SpecProvenance == InitProvenance /\ [][ProvenanceNext]_vars

\* lines 558-570: as Init, and a configuration file with some sections, all of
\* one type, was read; _get_destination is about to be called on a string
InitResolve ==
    /\ mbox = <<>>
    /\ lockHolder = NoProc
    /\ pc = [p \in Procs |-> "idle"]
    /\ statusOld = [p \in Procs |-> 0]
    /\ written = [p \in Procs |-> 0]
    /\ result = [p \in Procs |-> "none"]
    /\ ncalls = [p \in Procs |-> 0]
    /\ fclosed = [p \in Procs |-> FALSE]
    /\ completed = {}
    /\ atLock = [p \in Procs |-> <<>>]
    /\ atReturn = [p \in Procs |-> <<>>]
    /\ ioFailed = [p \in Procs |-> FALSE]
    /\ utimeFailed = [p \in Procs |-> FALSE]
    /\ truncFailed = FALSE
    /\ clock = 0
    /\ tmpdir = <<>>
    /\ newdir = <<>>
    /\ mdpc = [i \in Insts |-> "idle"]
    /\ mdname = [i \in Insts |-> <<>>]
    /\ dcount = [i \in Insts |-> InitialDcount]
    /\ mdcalls = [i \in Insts |-> 0]
    /\ mdresult = [i \in Insts |-> "none"]
    /\ used = [i \in Insts |-> <<>>]
    /\ mdfails = [i \in Insts |-> 0]
    /\ leftover = {}
    /\ kind = "MultiSorter"
    /\ targets = <<>>
    /\ ndests = 0
    /\ cpc = "idle"
    /\ recipient = None
    /\ idx = 1
    /\ matched = <<>>
    /\ log = <<>>
    /\ attempts = <<>>
    /\ cresult = "none"
    /\ childFailed = NoChild
    /\ childErr = "none"
    /\ variant = "MDA_external"
    /\ euid = "user"
    /\ allowRoot = Absent
    /\ confUser = Absent
    /\ xrcpt = FALSE
    /\ ppc = "idle"
    /\ pstep = 1
    /\ child = "none"
    /\ ctrace = <<>>
    /\ cfail = "none"
    /\ cexit = NoExit
    /\ exitcode = NoExit
    /\ rawOut = <<>>
    /\ rawErr = <<>>
    /\ xresult = NoResult
    /\ forks = 0
    /\ prev = [exit |-> NoExit, res |-> NoResult]
    /\ xcalls = 0
    /\ cls = "none"
    /\ args = <<>>
    /\ conf = <<>>
    /\ confchecked = FALSE
    /\ obj = "new"
    /\ cerr = NoOp
    /\ nchecks = 0
    /\ shown = NoShown
    /\ parent = [n \in Nodes |-> IF n = Root THEN NoNode ELSE Root]
    /\ stored = [n \in Nodes |-> NoContext]
    /\ lastctx = [n \in Nodes |-> NoContext]
    /\ handed = <<>>
    /\ sections \in SUBSET {<<>>, <<"a">>}
    /\ sectype \in TypeNames
    /\ spath \in SeqsUpTo(PathChars, MaxPathLen)
    /\ resolved = NotResolved
    /\ ipath = PathIs("file", <<>>)
    /\ iwas = "file"
    /\ ilock = "none"
    /\ ipc = "done"
    /\ ifirst = <<>>
    /\ iresult = InitEnd("ok", "")
    /\ ain = NoArgInput
    /\ ainfo = NoInfo
    /\ aargv = <<>>
    /\ aend = "none"

\* the destination strings of a composite are resolved
SpecResolve == InitResolve /\ [][ResolveNext]_vars

\* line 157: as Init, and Mboxrd.initialize is about to run on some path
InitMboxInit ==
    /\ mbox = <<>>
    /\ lockHolder = NoProc
    /\ pc = [p \in Procs |-> "idle"]
    /\ statusOld = [p \in Procs |-> 0]
    /\ written = [p \in Procs |-> 0]
    /\ result = [p \in Procs |-> "none"]
    /\ ncalls = [p \in Procs |-> 0]
    /\ fclosed = [p \in Procs |-> FALSE]
    /\ completed = {}
    /\ atLock = [p \in Procs |-> <<>>]
    /\ atReturn = [p \in Procs |-> <<>>]
    /\ ioFailed = [p \in Procs |-> FALSE]
    /\ utimeFailed = [p \in Procs |-> FALSE]
    /\ truncFailed = FALSE
    /\ clock = 0
    /\ tmpdir = <<>>
    /\ newdir = <<>>
    /\ mdpc = [i \in Insts |-> "idle"]
    /\ mdname = [i \in Insts |-> <<>>]
    /\ dcount = [i \in Insts |-> InitialDcount]
    /\ mdcalls = [i \in Insts |-> 0]
    /\ mdresult = [i \in Insts |-> "none"]
    /\ used = [i \in Insts |-> <<>>]
    /\ mdfails = [i \in Insts |-> 0]
    /\ leftover = {}
    /\ kind = "MultiSorter"
    /\ targets = <<>>
    /\ ndests = 0
    /\ cpc = "idle"
    /\ recipient = None
    /\ idx = 1
    /\ matched = <<>>
    /\ log = <<>>
    /\ attempts = <<>>
    /\ cresult = "none"
    /\ childFailed = NoChild
    /\ childErr = "none"
    /\ variant = "MDA_external"
    /\ euid = "user"
    /\ allowRoot = Absent
    /\ confUser = Absent
    /\ xrcpt = FALSE
    /\ ppc = "idle"
    /\ pstep = 1
    /\ child = "none"
    /\ ctrace = <<>>
    /\ cfail = "none"
    /\ cexit = NoExit
    /\ exitcode = NoExit
    /\ rawOut = <<>>
    /\ rawErr = <<>>
    /\ xresult = NoResult
    /\ forks = 0
    /\ prev = [exit |-> NoExit, res |-> NoResult]
    /\ xcalls = 0
    /\ cls = "none"
    /\ args = <<>>
    /\ conf = <<>>
    /\ confchecked = FALSE
    /\ obj = "new"
    /\ cerr = NoOp
    /\ nchecks = 0
    /\ shown = NoShown
    /\ parent = [n \in Nodes |-> IF n = Root THEN NoNode ELSE Root]
    /\ stored = [n \in Nodes |-> NoContext]
    /\ lastctx = [n \in Nodes |-> NoContext]
    /\ handed = <<>>
    /\ sections = {}
    /\ sectype = "Maildir"
    /\ spath = <<>>
    /\ resolved = NotResolved
    /\ ipath \in PathStates
    /\ iwas = ipath.kind
    /\ ilock = "none"
    /\ ipc = "start"
    /\ ifirst = <<>>
    /\ iresult = InitEnd("none", "")
    /\ ain = NoArgInput
    /\ ainfo = NoInfo
    /\ aargv = <<>>
    /\ aend = "none"

\* Mboxrd.initialize, and another process locking the file
SpecMboxInit == InitMboxInit /\ [][MboxInitNext]_vars

\* lines 345-353, 501-508: as Init, and an MDA destination is about to build
\* the arguments of its program for some message
InitArgv ==
    /\ mbox = <<>>
    /\ lockHolder = NoProc
    /\ pc = [p \in Procs |-> "idle"]
    /\ statusOld = [p \in Procs |-> 0]
    /\ written = [p \in Procs |-> 0]
    /\ result = [p \in Procs |-> "none"]
    /\ ncalls = [p \in Procs |-> 0]
    /\ fclosed = [p \in Procs |-> FALSE]
    /\ completed = {}
    /\ atLock = [p \in Procs |-> <<>>]
    /\ atReturn = [p \in Procs |-> <<>>]
    /\ ioFailed = [p \in Procs |-> FALSE]
    /\ utimeFailed = [p \in Procs |-> FALSE]
    /\ truncFailed = FALSE
    /\ clock = 0
    /\ tmpdir = <<>>
    /\ newdir = <<>>
    /\ mdpc = [i \in Insts |-> "idle"]
    /\ mdname = [i \in Insts |-> <<>>]
    /\ dcount = [i \in Insts |-> InitialDcount]
    /\ mdcalls = [i \in Insts |-> 0]
    /\ mdresult = [i \in Insts |-> "none"]
    /\ used = [i \in Insts |-> <<>>]
    /\ mdfails = [i \in Insts |-> 0]
    /\ leftover = {}
    /\ kind = "MultiSorter"
    /\ targets = <<>>
    /\ ndests = 0
    /\ cpc = "idle"
    /\ recipient = None
    /\ idx = 1
    /\ matched = <<>>
    /\ log = <<>>
    /\ attempts = <<>>
    /\ cresult = "none"
    /\ childFailed = NoChild
    /\ childErr = "none"
    /\ variant = "MDA_external"
    /\ euid = "user"
    /\ allowRoot = Absent
    /\ confUser = Absent
    /\ xrcpt = FALSE
    /\ ppc = "idle"
    /\ pstep = 1
    /\ child = "none"
    /\ ctrace = <<>>
    /\ cfail = "none"
    /\ cexit = NoExit
    /\ exitcode = NoExit
    /\ rawOut = <<>>
    /\ rawErr = <<>>
    /\ xresult = NoResult
    /\ forks = 0
    /\ prev = [exit |-> NoExit, res |-> NoResult]
    /\ xcalls = 0
    /\ cls = "none"
    /\ args = <<>>
    /\ conf = <<>>
    /\ confchecked = FALSE
    /\ obj = "new"
    /\ cerr = NoOp
    /\ nchecks = 0
    /\ shown = NoShown
    /\ parent = [n \in Nodes |-> IF n = Root THEN NoNode ELSE Root]
    /\ stored = [n \in Nodes |-> NoContext]
    /\ lastctx = [n \in Nodes |-> NoContext]
    /\ handed = <<>>
    /\ sections = {}
    /\ sectype = "Maildir"
    /\ spath = <<>>
    /\ resolved = NotResolved
    /\ ipath = PathIs("file", <<>>)
    /\ iwas = "file"
    /\ ilock = "none"
    /\ ipc = "done"
    /\ ifirst = <<>>
    /\ iresult = InitEnd("ok", "")
    /\ ain \in ArgInputs
    /\ ainfo = NoInfo
    /\ aargv = <<>>
    /\ aend = "none"

\* the arguments an MDA destination gives to its program
SpecArgv == InitArgv /\ [][ArgvNext]_vars

\* the mbox file, the default
Spec == SpecMbox

\* ------------------------------------------------------- Mboxrd: properties

\* the message of delivery d = <<p, n>> stands whole and contiguous in f
Contains(f, d) ==
    \E i \in 1..Len(f) :
        /\ i + MsgChunks - 1 <= Len(f)
        /\ SubSeq(f, i, i + MsgChunks - 1) = Message(d[1], d[2])

\* f is a concatenation of whole messages
WellFormed(f) ==
    /\ Len(f) % MsgChunks = 0
    /\ \A b \in 0..((Len(f) \div MsgChunks) - 1) :
         \E p \in Procs, n \in 1..MaxDeliveries :
             SubSeq(f, b * MsgChunks + 1, (b + 1) * MsgChunks) = Message(p, n)

\* no process is between taking the lock and leaving _deliver_message
Quiescent == \A p \in Procs : pc[p] \in {"idle", "lock"}

\* the last call of p has ended
Ended(p) == pc[p] = "idle" /\ result[p] # "none"

\* C1: when several processes deliver to the same mbox file, the writes of
\* two deliveries never interleave, so whenever no delivery is in its write
\* phase (and no truncate has failed) the file is a concatenation of whole,
\* contiguous messages.
C1_FileIsWholeMessages ==
    (Quiescent /\ ~truncFailed) => WellFormed(mbox)

\* C2: whenever a delivery call has returned or raised, the process no longer
\* holds the lock on the mbox file.
C2_LockReleasedOnEveryExit ==
    \A p \in Procs : Ended(p) => lockHolder # p

\* C3: a call that met an I/O failure in write, flush or fsync ends with a
\* delivery error and (no truncate having failed) leaves the file as it was
\* before the call wrote.
C3_FailedWriteLeavesNoFragment ==
    \A p \in Procs :
        (Ended(p) /\ ioFailed[p] /\ ~truncFailed) =>
            /\ result[p] = "getmailDeliveryError"
            /\ atReturn[p] = atLock[p]

\* C4: the truncation after a failed write never removes bytes of a message
\* that another process finished appending: every successfully delivered
\* message stays whole in the file.
C4_TruncationSparesFinishedMessages ==
    \A d \in completed : Contains(mbox, d)

\* C5: a failure of the atime/mtime restoration never fails the delivery: the
\* call returns success, the appended message is in the file and the lock is
\* released.
C5_UtimeFailureNeverFailsDelivery ==
    \A p \in Procs :
        (utimeFailed[p] /\ pc[p] = "idle") =>
            /\ result[p] = "ok"
            /\ <<p, ncalls[p]>> \in completed
            /\ Contains(atReturn[p], <<p, ncalls[p]>>)
            /\ lockHolder # p

\* a call in which os.utime failed has returned
C5_Witness ==
    \E p \in Procs : utimeFailed[p] /\ pc[p] = "idle" /\ result[p] = "ok"

\* ------------------------------------------------------ Maildir: properties

\* the deliveries whose file has reached new/
Delivered ==
    SumOver([i \in Insts |-> Len(used[i]) + IF mdpc[i] = "delivered" THEN 1 ELSE 0])

\* C6: N successful deliveries produce N distinct files in new/ and leave
\* none in tmp/ (a file under tmp/ belongs to a delivery in progress or to a
\* failed one), and no file under new/ is partially written.
C6_MaildirTwoPhaseDelivery ==
    /\ Cardinality(DOMAIN newdir) = Delivered
    /\ \A name \in DOMAIN newdir : newdir[name] = MsgChunks
    /\ \A name \in DOMAIN tmpdir :
         \/ name \in leftover
         \/ \E i \in Insts : mdpc[i] = "tmp" /\ mdname[i] = name

\* every instance has delivered, all within one second, and nothing failed
C6_Witness ==
    /\ clock = 0
    /\ \A i \in Insts : mdpc[i] = "idle" /\ Len(used[i]) = 2 /\ mdfails[i] = 0
    /\ Cardinality(DOMAIN newdir) = 4
    /\ DOMAIN tmpdir = {}

\* C7: the delivery counter starts at 0, grows by exactly 1 with every
\* successful delivery and is left alone by a failed one, so the counters of
\* an instance's successful deliveries are 0, 1, 2, ...: distinct, increasing.
C7_CounterCountsSuccesses ==
    \A i \in Insts :
        /\ dcount[i] = Len(used[i])
        /\ \A k \in 1..Len(used[i]) : used[i][k] = k - 1
        /\ \A j, k \in 1..Len(used[i]) : j < k => used[i][j] < used[i][k]

\* an instance has delivered, failed, and delivered again
C7_Witness ==
    \E i \in Insts : mdfails[i] >= 1 /\ Len(used[i]) >= 2 /\ mdpc[i] = "idle"

\* --------------------------------------- MultiSorter, MultiDestination: properties

\* the routes among the first k whose pattern matches the recipient, in order
RECURSIVE MatchingRoutes(_)
MatchingRoutes(k) ==
    IF k = 0 THEN <<>>
    ELSE IF Search(targets[k], recipient.addr)
         THEN Append(MatchingRoutes(k - 1), k)
         ELSE MatchingRoutes(k - 1)

\* child c is among the children in q
Among(c, q) == \E k \in 1..Len(q) : q[k] = c

\* C8: with a known recipient MultiSorter evaluates every route in order: the
\* message goes to the child of every matching route, once per route and in
\* route order, and to the default exactly when no route matches.
C8_SorterDeliversToEveryMatch ==
    (kind = "MultiSorter" /\ recipient.known) =>
        /\ (cpc = "loop" /\ childFailed = NoChild) => log = MatchingRoutes(idx - 1)
        /\ (cpc = "done" /\ cresult = "ok") =>
             log = IF MatchingRoutes(Len(targets)) = <<>>
                   THEN <<DefaultChild>>
                   ELSE MatchingRoutes(Len(targets))
        /\ Among(DefaultChild, attempts) => MatchingRoutes(Len(targets)) = <<>>

\* a delivery that matched two routes has returned
C8_Witness ==
    /\ kind = "MultiSorter" /\ recipient.known
    /\ cpc = "done" /\ cresult = "ok"
    /\ log = <<1, 2>>

\* C9: a message without recipient fails with a configuration error when a
\* route exists, and then no child is handed the message; without routes it
\* goes to the default.
C9_NoRecipientIsConfigurationError ==
    (kind = "MultiSorter" /\ cpc = "done" /\ ~recipient.known) =>
        IF targets # <<>>
        THEN cresult = "getmailConfigurationError" /\ attempts = <<>>
        ELSE attempts = <<DefaultChild>>

\* C10: the children are delivered to in order, and the first child that
\* raises ends the composite's delivery: its error is the composite's, the
\* children before it keep the message, and no later child is tried.
C10_FirstFailingChildAborts ==
    /\ childFailed # NoChild =>
         /\ cpc = "done"
         /\ cresult = childErr
         /\ attempts = Append(log, childFailed)
    /\ kind = "MultiDestination" =>
         attempts = [k \in 1..Len(attempts) |-> k]
    /\ kind = "MultiSorter" =>
         \A j, k \in 1..Len(attempts) :
             j < k => (attempts[j] < attempts[k] \/ attempts[k] = DefaultChild)

\* the second of three children has raised after the first took the message
C10_Witness ==
    /\ kind = "MultiDestination" /\ ndests = 3
    /\ childFailed = 2 /\ log = <<1>> /\ cpc = "done"

\* --------------------------------- MDA_qmaillocal, MDA_external: properties

\* the call has ended
ExtDone == ppc = "done"
\* the call has ended, and it had forked its child
ForkedDone == ppc = "done" /\ forks = 1
\* the position of step s in the steps the child has completed, or 0
Pos(s) == IF \E i \in 1..Len(ctrace) : ctrace[i] = s
          THEN CHOOSE i \in 1..Len(ctrace) : ctrace[i] = s
          ELSE 0
\* the child has attempted step s
Attempted(s) == Pos(s) > 0 \/ cfail = s

\* C11: root without allow_root_commands (and, for MDA_external, without a
\* user) never forks and the call fails; MDA_external with a user configured,
\* called as root, forks its child
C11_RootGate ==
    /\ ( /\ ppc # "idle"
         /\ euid = "root"
         /\ allowRoot \in {Absent, Val("bool", "False")}
         /\ variant = "MDA_external" => confUser \in {Absent, PyNone} )
       => forks = 0 /\ ExtDone /\ xresult.kind \notin {"none", "ok"}
    /\ ( /\ ppc # "idle"
         /\ variant = "MDA_external"
         /\ euid = "root"
         /\ allowRoot \in {Absent, Val("bool", "False")}
         /\ confUser = Val("str", "mail")
         /\ xresult.kind # "OSError" )
       => forks = 1

\* C12 as stated: the failure of exit status 111 and the failure of exit
\* status 1 are of different error kinds
C12_TemporaryIsAnotherKind ==
    ( /\ ForkedDone
      /\ variant = "MDA_qmaillocal"
      /\ prev.exit = TemporaryExit
      /\ exitcode = 1 )
    => prev.res.kind # xresult.kind

\* C12 amended: exit status 111 and exit status 1 both end the call with a
\* getmailDeliveryError; the two differ in the message only, "temporary
\* error" against "error", and neither is the success of exit status 0
C12_TemporaryDiffersInMessage ==
    ( ForkedDone /\ variant = "MDA_qmaillocal" )
    => /\ exitcode = TemporaryExit
          => xresult = EndOf("getmailDeliveryError", "temporary error", <<>>)
       /\ exitcode = 1 => xresult = EndOf("getmailDeliveryError", "error", <<>>)
       /\ xresult.kind = "ok" => exitcode = 0
       /\ prev.exit = TemporaryExit /\ exitcode = 1
          => prev.res.kind = xresult.kind /\ prev.res.msg # xresult.msg

C12_Witness ==
    /\ ForkedDone
    /\ variant = "MDA_qmaillocal"
    /\ prev.exit = TemporaryExit
    /\ exitcode = 1

\* C13 as stated: the call that forked succeeds exactly when the exit status
\* is 0 and the stderr file is empty, fails with a delivery error otherwise,
\* and its success carries what the stdout file holds
C13_SuccessIffCleanExit ==
    ForkedDone
    => /\ xresult.kind = "ok" <=> (exitcode = 0 /\ rawErr = <<>>)
       /\ xresult.kind # "ok" => xresult.kind = "getmailDeliveryError"
       /\ xresult.kind = "ok" => xresult.out = rawOut

\* C13 amended: the call that forked succeeds exactly when the exit status is
\* 0 and the stderr file is empty once leading and trailing whitespace is
\* stripped, fails with a delivery error otherwise, and its success carries
\* the stripped contents of the stdout file
C13_SuccessIffCleanExitStripped ==
    ForkedDone
    => /\ xresult.kind = "ok" <=> (exitcode = 0 /\ Strip(rawErr) = <<>>)
       /\ xresult.kind # "ok" => xresult.kind = "getmailDeliveryError"
       /\ xresult.kind = "ok" => xresult.out = Strip(rawOut)

C13_Witness ==
    /\ ForkedDone
    /\ exitcode = 0
    /\ rawErr # <<>>
    /\ xresult.kind = "ok"
    /\ xresult.out # rawOut

\* C14: the child calls change_uidgid after it has written the message and
\* rebound stdin, stdout and stderr, and before execl; after change_uidgid it
\* only builds arguments and calls execl; it never attempts execl without
\* having called change_uidgid
C14_DropBetweenRebindAndExec ==
    /\ Pos("change_uidgid") > 0
       => /\ \A s \in {"write", "stdin", "stdout", "stderr"} :
               0 < Pos(s) /\ Pos(s) < Pos("change_uidgid")
          /\ \A i \in (Pos("change_uidgid") + 1)..Len(ctrace) :
               ctrace[i] \in {"args", "execl"}
    /\ Attempted("execl") => Pos("change_uidgid") > 0
    /\ Pos("execl") > 0 => Pos("change_uidgid") < Pos("execl")
    /\ child = "running" => Pos("execl") > 0

C14_Witness ==
    /\ child = "running"
    /\ euid = "root"
    /\ confUser = Val("str", "mail")

\* C15: a child whose step raised has exited with status 127, and no child
\* ever leaves _deliver_qmaillocal or _deliver_command alive
C15_FailedChildExits127 ==
    /\ child # "escaped"
    /\ cfail # "none" => child = "exited" /\ cexit = ChildFailedExit

C15_Witness ==
    /\ cfail = "execl"
    /\ child = "exited"
    /\ cexit = ChildFailedExit

\* C16: while the child it forked has not terminated, the parent is still in
\* the call, has no exit status and has produced no result
C16_ResultOnlyAfterChildEnds ==
    ( forks = 1 /\ child # "exited" )
    => ppc = "parent" /\ xresult = NoResult /\ exitcode = NoExit

C16_Witness ==
    /\ ForkedDone
    /\ child = "exited"
    /\ exitcode = cexit
    /\ xresult.kind = "ok"

\* C17 as stated: no call ends with a configuration error
C17_NoConfigurationErrorInDelivery ==
    ExtDone => xresult.kind # "getmailConfigurationError"

\* the gate of lines 373 and 513 reads the configuration and refuses
Refused ==
    /\ euid = "root"
    /\ allowRoot = Val("bool", "False")
    /\ variant = "MDA_qmaillocal" => xrcpt
    /\ variant = "MDA_external" => confUser = PyNone

\* C17 amended: a call of MDA_qmaillocal or MDA_external ends with a
\* configuration error exactly when the gate in front of the fork refuses to
\* run the command as root, and then it has not forked
C17_ConfigurationErrorOnlyFromGate ==
    ExtDone
    => /\ xresult.kind = "getmailConfigurationError" <=> Refused
       /\ xresult.kind = "getmailConfigurationError" => forks = 0

C17_Witness ==
    /\ ExtDone
    /\ xresult.kind = "getmailConfigurationError"
    /\ variant = "MDA_external"

\* ----------------------------- ConfigurableBase, DeliverySkeleton: properties

\* the entries of _confitems of the class under construction
Items == {ConfItems(cls)[i] : i \in 1..Len(ConfItems(cls))}
\* the constructor has returned or raised, and nothing was called since
JustConstructed == obj # "new" /\ cerr.op = "__init__"
\* checkconf has returned without raising
Checked == cerr.op = "checkconf" /\ cerr.kind = "ok"
\* the boolean a text of a configuration file stands for
Meant(s) == IF LowerText(s) \in FalseTexts THEN Val("bool", "False")
            ELSE Val("bool", "True")

\* C18: the constructor does not fail over an omitted parameter that has a
\* default, and the object it returns holds the default of every omitted
\* parameter that has one; the constructor fails over an omitted parameter
\* only if the parameter has no default
C18_ConstructionAppliesDefaults ==
    JustConstructed
    => \A item \in Items :
         (item.hasDefault /\ args[item.name] = Absent)
         => /\ ~(obj = "failed" /\ cerr.why = "missing" /\ cerr.name = item.name)
            /\ obj = "constructed" => conf[item.name] = item.default

\* C19 as stated: after checkconf has returned, every parameter of the
\* schema is present and its value has the declared type
C19_CheckedConfIsTyped ==
    Checked
    => \A item \in Items :
         conf[item.name] # Absent /\ conf[item.name].t = item.type

\* C19 amended: after checkconf has returned, every parameter of the schema
\* is present; the value of a supplied parameter has the declared type, and
\* an omitted parameter holds its declared default as it is, whatever the
\* type of the default (None for the str parameters user and group)
C19_CheckedConfIsTypedOrDefault ==
    Checked
    => \A item \in Items :
         /\ conf[item.name] # Absent
         /\ args[item.name] # Absent => conf[item.name].t = item.type
         /\ args[item.name] = Absent => conf[item.name] = item.default

C19_Witness ==
    /\ Checked
    /\ cls = "MDA_external"
    /\ conf["user"] = PyNone
    /\ args["unixfrom"] = Val("str", "0")
    /\ conf["unixfrom"] = Val("bool", "False")

\* C20: checkconf does not raise over a boolean parameter supplied as one of
\* the texts 0, false, no, off, 1, true, yes, on in any case, and when it
\* returns the parameter holds the boolean the text stands for
C20_BoolTextsCoerced ==
    cerr.op = "checkconf"
    => \A item \in Items :
         ( /\ item.type = "bool"
           /\ args[item.name].t = "str"
           /\ LowerText(args[item.name].v) \in FalseTexts \cup TrueTexts )
         => /\ ~(cerr.kind # "ok" /\ cerr.name = item.name)
            /\ cerr.kind = "ok" => conf[item.name] = Meant(args[item.name].v)

\* ---- checkconf again, and the display string

\* C21: a call of checkconf on an object whose check has succeeded checks
\* nothing: it returns without raising and leaves every value of self.conf
\* and the mark as they were; a call of checkconf that raises leaves the
\* object unmarked
C21_CheckconfIdempotent ==
    [][ nchecks' # nchecks
        => /\ confchecked => (conf' = conf /\ confchecked' /\ cerr'.kind = "ok")
           /\ cerr'.kind # "ok" => ~confchecked' ]_vars

\* the second call on an object the first call has checked, whose user is
\* the default None that a check would not let through
C21_Witness ==
    /\ nchecks = 2
    /\ confchecked
    /\ cerr = Op("checkconf", "ok", "", "")
    /\ cls = "MDA_external"
    /\ args["user"] = Absent
    /\ conf["user"] = PyNone

\* the names the display string lists, in its order
NamesShown(text) == [k \in 1..((Len(text) + 1) \div 5) |-> text[5 * (k - 1) + 1]]

\* C24: the display string lists every key of self.conf once, in ascending
\* order of the names, and does not depend on the value of password: the
\* same mapping with any other password gives the same string
C24_ConfstringSortedAndMasked ==
    shown # NoShown
    => LET names == NamesShown(shown.text)
       IN  /\ {names[k] : k \in DOMAIN names} = Keys(shown.conf)
           /\ \A k \in DOMAIN names : k > 1 => Before(names[k - 1], names[k])
           /\ \A pw \in Passwords :
                shown.conf["password"] # Absent
                => ConfString([shown.conf EXCEPT !["password"] = pw]) = shown.text

\* a checked mapping with a password and other parameters was displayed
C24_Witness ==
    /\ shown # NoShown
    /\ shown.conf["password"] = Val("str", "pw1")
    /\ shown.conf["command"] # Absent
    /\ shown.conf["user"] = PyNone
    /\ Len(shown.text) > 20

\* ---- Mboxrd: the bytes before the call

\* g begins with f
Extends(g, f) == Len(f) <= Len(g) /\ SubSeq(g, 1, Len(f)) = f

\* the file a successful call leaves is the file it locked and its message
AppendedOnSuccess ==
    \A p \in Procs :
        (Ended(p) /\ result[p] = "ok")
        => atReturn[p] = atLock[p] \o Message(p, ncalls[p])

\* C28: a delivery is append-only: the file a successful call leaves is the
\* file as it was when the call got the lock, followed by the message; and
\* the file any call leaves, succeeded or failed, begins with the file as it
\* was when the call got the lock
C28_DeliveryIsAppendOnly ==
    /\ AppendedOnSuccess
    /\ \A p \in Procs : Ended(p) => Extends(atReturn[p], atLock[p])

\* ------------------------------ retriever_info, deliver_message: properties

\* C22: every destination holds the context last applied to it, where a
\* context applied to a composite is applied to every destination under it,
\* at any depth; and when the primitive of a destination ran, the message
\* carried the three fields of the context last applied to that destination
C22_ContextReachesEveryPrimitive ==
    /\ stored = lastctx
    /\ \A k \in DOMAIN handed : handed[k].fields = handed[k].applied

\* a delivery through two composites, after a context was applied to the
\* outer one and another to the inner one
C22_Witness ==
    \E k \in DOMAIN handed :
        LET n == handed[k].node
        IN  /\ k >= 3
            /\ n # Root /\ parent[n] # Root
            /\ handed[1].node = Root
            /\ handed[k].fields \in Retrievers
            /\ handed[1].fields \in Retrievers
            /\ handed[k].fields # handed[1].fields

\* -------------------------------------------- _get_destination: properties

\* the string the rules are applied to, and whether it is bracketed
Expanded == ExpandUserVars(spath)
Bracketed == StartsWith(Expanded, "[") /\ EndsWith(Expanded, "]")
PathLike == StartsWith(Expanded, "/") \/ StartsWith(Expanded, ".")
\* the call raised the configuration error whose message says w
ConfigurationError(w) ==
    resolved.raised = "getmailConfigurationError" /\ resolved.why = w

\* the rules of C23 without the one on the type of the section: a bracketed
\* string whose section is missing raises, a path ending in / makes a
\* Maildir, another path an Mboxrd, any other string raises "not of
\* recognized type"
ResolvedByOneRule ==
    resolved # NotResolved
    => /\ (Bracketed /\ SubSeq(Expanded, 2, Len(Expanded) - 1) \notin sections)
          => ConfigurationError("section name which does not exist")
       /\ (Bracketed /\ SubSeq(Expanded, 2, Len(Expanded) - 1) \in sections
           /\ sectype \in DestinationTypes)
          => resolved.raised = "none" /\ resolved.made = sectype
       /\ (~Bracketed /\ PathLike /\ EndsWith(Expanded, "/"))
          => resolved.raised = "none" /\ resolved.made = "Maildir"
       /\ (~Bracketed /\ PathLike /\ ~EndsWith(Expanded, "/"))
          => resolved.raised = "none" /\ resolved.made = "Mboxrd"
       /\ (~Bracketed /\ ~PathLike)
          => ConfigurationError("not of recognized type")

\* C23: a destination string is resolved by one rule, and a bracketed string
\* whose section has a type that is not a destination type, not even a base
\* class the module exports, raises a configuration error
C23_SectionTypeIsDestinationType ==
    /\ ResolvedByOneRule
    /\ (resolved # NotResolved /\ Bracketed
        /\ SubSeq(Expanded, 2, Len(Expanded) - 1) \in sections
        /\ sectype \notin Exported)
       => resolved.raised = "getmailConfigurationError"

\* ------------------------------------------- Mboxrd.initialize: properties

\* initialize has returned or raised
Initialized == ipc \in {"done", "deleted"}

\* the verdicts of C25: a path that is no regular file raises a
\* configuration error; a missing path is a file without content afterwards;
\* an initialize that has read the first line of an existing file returns if
\* the file is empty or the line begins with "From ", and raises a
\* configuration error otherwise
InitializeVerdicts ==
    Initialized
    => /\ iwas = "other" => iresult.kind = "getmailConfigurationError"
       /\ iwas = "missing" => ipath = PathIs("file", <<>>)
       /\ (iwas = "file" /\ iresult.kind # "IOError")
          => LET c == ipath.content
                 marked == Len(c) >= 5 /\ SubSeq(c, 1, 5) = FromLine
             IN  IF c = <<>> \/ marked
                 THEN iresult.kind = "ok"
                 ELSE iresult.kind = "getmailConfigurationError"

\* C25: the verdicts of initialize on the three kinds of path, and once
\* initialize has returned or raised, the destination does not hold the
\* lock it took to read the first line
C25_InitializeChecksAndUnlocks ==
    /\ InitializeVerdicts
    /\ ipc = "done" => ilock # "self"

\* ------------------------- the arguments of the delivery program: properties

\* MDA_qmaillocal has built msginfo and the arguments of qmail-local
QmailBuilt == ain.variant = "MDA_qmaillocal" /\ aend = "execl"
\* MDA_external has built the arguments of its command
ExternalBuilt == ain.variant = "MDA_external" /\ aend = "execl"

\* where "@" stands last in s, 0 if nowhere
LastAt(s) ==
    IF \E i \in 1..Len(s) : s[i] = "@"
    THEN CHOOSE i \in 1..Len(s) :
            s[i] = "@" /\ \A j \in (i + 1)..Len(s) : s[j] # "@"
    ELSE 0
\* b stands in s at k
StandsAt(s, b, k) == k + Len(b) - 1 <= Len(s) /\ SubSeq(s, k, k + Len(b) - 1) = b
\* where b stands first in s, 0 if nowhere
FirstAt(s, b) ==
    IF \E k \in 1..Len(s) : StandsAt(s, b, k)
    THEN CHOOSE k \in 1..Len(s) :
            StandsAt(s, b, k) /\ \A j \in 1..(k - 1) : ~StandsAt(s, b, j)
    ELSE 0

\* local, dash and ext are derived from the recipient without its domain:
\* the prefix is translated, then the break string is looked for
DerivedFrom(undomained) ==
    LET from == ain.xlate[1]
        to == ain.xlate[2]
        local == IF (from # <<>> \/ to # <<>>) /\ HasPrefix(undomained, from)
                 THEN to \o From(undomained, Len(from) + 1)
                 ELSE undomained
        k == FirstAt(local, ain.break)
    IN  /\ ainfo.local = local
        /\ ainfo.dash = (IF k > 0 THEN ain.break ELSE <<>>)
        /\ ainfo.ext = (IF k > 0 THEN From(local, k + Len(ain.break)) ELSE <<>>)
        /\ <<aargv[5], aargv[6], aargv[7]>> = <<ainfo.local, ainfo.dash, ainfo.ext>>

\* C26 as stated: local is the lower-cased recipient without its final
\* "@domain" (a recipient without "@" has none, and stays whole), with the
\* "from" prefix replaced by the "to" prefix when a translation is configured
\* and local starts with "from"; dash is the break string and ext what
\* follows its first occurrence in local, or both are empty
C26_LocalDashExt ==
    QmailBuilt
    => LET r == LowerStr(ain.rcpt)
       IN  DerivedFrom(IF LastAt(r) = 0 THEN r ELSE SubSeq(r, 1, LastAt(r) - 1))

\* C26 amended: local is what stands before the last "@" of the lower-cased
\* recipient, and is empty for a recipient without "@"; the translation, dash
\* and ext are as stated
C26_LocalBeforeLastAt ==
    QmailBuilt
    => LET r == LowerStr(ain.rcpt)
       IN  DerivedFrom(IF LastAt(r) = 0 THEN <<>> ELSE SubSeq(r, 1, LastAt(r) - 1))

\* a recipient with capitals whose prefix is translated and whose local part
\* holds the break string more than once
C26_Witness ==
    /\ QmailBuilt
    /\ ain.rcpt = <<"a", "-", "b", "-", "-", "a", "@", "x">>
    /\ ain.xlate = <<<<"a", "-">>, <<"b">>>>
    /\ ain.break = <<"-">>
    /\ ainfo.local = <<"b", "b", "-", "-", "a">>
    /\ ainfo.dash = <<"-">>
    /\ ainfo.ext = <<"-", "a">>

\* the value holds no placeholder
Plain(v) == \A i \in DOMAIN v : \A key \in InfoKeys : v[i] # Placeholder(key)

\* the template with the placeholder of every key of keys replaced by the
\* value of the key, in one pass
RECURSIVE Substituted(_, _)
Substituted(t, keys) ==
    IF t = <<>> THEN <<>>
    ELSE (IF \E key \in keys : Head(t) = Placeholder(key)
          THEN ainfo[CHOOSE key \in keys : Head(t) = Placeholder(key)]
          ELSE <<Head(t)>>)
         \o Substituted(Tail(t), keys)

\* C27: the arguments given to the program are the configured path and then
\* one argument for each template, in the order of the templates, whatever
\* the sender and the recipient hold; without a recipient each argument is
\* its template with the sender placeholder replaced and nothing else, and
\* with a recipient and a sender that holds no placeholder it is its
\* template with the four placeholders replaced
C27_ArgvShapeIsTemplates ==
    ExternalBuilt
    => /\ Len(aargv) = 1 + Len(ain.templates)
       /\ aargv[1] = ConfPath
       /\ ain.rcpt = NoRecipient
          => \A i \in DOMAIN ain.templates :
                aargv[i + 1] = Substituted(ain.templates[i], {"sender"})
       /\ (ain.rcpt # NoRecipient /\ Plain(ain.sender))
          => \A i \in DOMAIN ain.templates :
                aargv[i + 1] = Substituted(ain.templates[i], InfoKeys)

\* a sender with a blank and a shell character, no recipient, two templates
C27_Witness ==
    /\ ExternalBuilt
    /\ ain.rcpt = NoRecipient
    /\ ain.sender = <<"s", " ", ";", "x">>
    /\ ain.templates = << <<"-", "f", " ", "%(sender)">>,
                          <<"%(local)", "@", "%(domain)">> >>
    /\ aargv = <<ConfPath, <<"-", "f", " ", "s", " ", ";", "x">>,
                 <<"%(local)", "@", "%(domain)">>>>

====
